---- MODULE Spec2Model ----
(***************************************************************************)
(* PENEPMA plugin of pymontecarlo: the exporter that turns an Options       *)
(* value into the lines of the .in file (penepma/exporter.py) and the       *)
(* importer that reads the simulator's output files (penepma/importer.py).  *)
(*                                                                          *)
(* A line of the .in file is a record [kw, args]: kw is the keyword (or, for *)
(* a comment line, "SKIP", "C_<section>" or "C_DETECTOR") and args the      *)
(* sequence of integers written after it.  Detector keys are the positions  *)
(* of the detectors in the insertion-ordered detector mapping.              *)
(***************************************************************************)
EXTENDS Integers, Sequences, FiniteSets, TLC

\* ------------------------------------------------------------------ bounds
\* Longest explicitly enumerated detector mapping.
MaxDets == 2
\* Number of further intensity detectors, each with a window of its own.
NFill == 24
\* Longest candidate transition list of a photon-depth detector.
MaxTransitions == 6
\* Most interaction-forcing rules of the first material.
MaxRules == 2
\* Most lines a varied output file is made of or extended by.
MaxRows == 2
\* Most depth-map files of a varied output directory.
MaxMaps == 2
\* Most limits of the options.
MaxLimits == 2

\* ------------------------------------------------------- program constants
MAX_PHOTON_DETECTORS == 25
MAX_SPATIAL_DISTRIBUTION == 10
MAX_PHOTON_DETECTOR_CHANNEL == 1000
\* Channels of the stand-in spectrum detector of a window without one.
FAKE_CHANNELS == 1000
\* Most depth channels written on GRIDZ.
MAX_DEPTH_CHANNELS == 100
\* Dumping period when the settings name none.
DEFAULT_DUMPP == 60

\* ------------------------------------------------------------- sequences
Range(s) == {s[i] : i \in 1..Len(s)}

RECURSIVE SeqsUpTo(_, _)
\* All sequences over S of length at most n.
SeqsUpTo(S, n) ==
    IF n = 0 THEN {<<>>}
    ELSE LET shorter == SeqsUpTo(S, n - 1)
         IN  shorter \cup {Append(s, x) : s \in {t \in shorter : Len(t) = n - 1}, x \in S}

RECURSIVE Ascending(_)
\* The elements of a finite set of integers, in ascending order.
Ascending(S) ==
    IF S = {} THEN <<>>
    ELSE LET m == CHOOSE x \in S : \A y \in S : x <= y
         IN  <<m>> \o Ascending(S \ {m})

RECURSIVE Flatten(_)
\* The concatenation of a sequence of sequences.
Flatten(ss) == IF ss = <<>> THEN <<>> ELSE Head(ss) \o Flatten(Tail(ss))

\* The lines with one of the keywords, in file order.
LinesOf(ls, kws) == SelectSeq(ls, LAMBDA l : l.kw \in kws)

Min2(a, b) == IF a <= b THEN a ELSE b
Max2(a, b) == IF a >= b THEN a ELSE b

\* ------------------------------------------------------------ detectors
DelimitedKinds == {"PhotonSpectrumDetector", "PhotonIntensityDetector", "PhotonDepthDetector"}
EnergyKinds == {"BackscatteredElectronEnergyDetector", "TransmittedElectronEnergyDetector"}
LogKinds == {"ElectronFractionDetector", "TimeDetector", "ShowersStatisticsDetector"}

Det(kind, elevation, azimuth, channels, limits, transitions) ==
    [kind |-> kind, elevation |-> elevation, azimuth |-> azimuth,
     channels |-> channels, limits |-> limits, transitions |-> transitions]

\* The angular window of a delimited detector: (elevation, azimuth), in degrees.
Window(d) == <<d.elevation[1], d.elevation[2], d.azimuth[1], d.azimuth[2]>>

IsDelimited(d) == d.kind \in DelimitedKinds

\* Two explicit windows (the second with its elevation limits in descending
\* order) and the windows of the fill detectors, which differ from the first
\* in azimuth only.
Elev1 == <<35, 45>>
Elev2 == <<-35, -45>>
AzimFull == <<0, 360>>
FillAzim(i) == <<i, 180 + i>>

\* options.detectors.iterclass(cls): the keys of the detectors of the given
\* kinds, in the order of the mapping.
IterClass(detectors, Kinds) ==
    Ascending({k \in 1..Len(detectors) : detectors[k].kind \in Kinds})

\* ------------------------------------------- detector indexing resolver
\* The total order on windows: lexicographic on (elevation, azimuth).
RECURSIVE LexLess(_, _)
LexLess(a, b) ==
    IF a = <<>> \/ b = <<>> THEN FALSE
    ELSE IF Head(a) # Head(b) THEN Head(a) < Head(b)
    ELSE LexLess(Tail(a), Tail(b))

RECURSIVE UniqueWindows(_, _)
\* The distinct windows of the detectors named by keys, each at its first
\* occurrence.
UniqueWindows(detectors, keys) ==
    IF keys = <<>> THEN <<>>
    ELSE LET rest == UniqueWindows(detectors, SubSeq(keys, 1, Len(keys) - 1))
             w == Window(detectors[keys[Len(keys)]])
         IN  IF w \in Range(rest) THEN rest ELSE Append(rest, w)

\* w inserted into the sorted sequence ws, after the windows not greater.
InsertWindow(ws, w) ==
    LET n == Cardinality({i \in 1..Len(ws) : ~LexLess(w, ws[i])})
    IN  SubSeq(ws, 1, n) \o <<w>> \o SubSeq(ws, n + 1, Len(ws))

RECURSIVE SortWindows(_)
SortWindows(ws) ==
    IF ws = <<>> THEN <<>>
    ELSE InsertWindow(SortWindows(SubSeq(ws, 1, Len(ws) - 1)), ws[Len(ws)])

\* index_delimited_detectors(dets): key -> index and index -> keys, indices
\* from 0, one per distinct window in the windows' order.
index_delimited_detectors(detectors, keys) ==
    LET sorted == SortWindows(UniqueWindows(detectors, keys))
        pos(w) == CHOOSE i \in 1..Len(sorted) : sorted[i] = w
        key_index == [k \in Range(keys) |-> pos(Window(detectors[k])) - 1]
    IN  [key_index |-> key_index,
         index_keys |-> [i \in 0..(Len(sorted) - 1) |->
                            Ascending({k \in Range(keys) : key_index[k] = i})]]

\* --------------------------------------------------------------- inputs
\* A transition: atomic number, destination and source subshell index, and
\* probability (in 1/1000).
Transition(z, dest, src, probability) ==
    [z |-> z, dest |-> dest, src |-> src, probability |-> probability]

\* Candidate transitions, not in probability order and with one tie.
TransitionPool ==
    << Transition(29, 1, 4, 300), Transition(29, 1, 3, 900), Transition(29, 4, 9, 500),
       Transition(74, 9, 16, 700), Transition(74, 4, 9, 500), Transition(29, 1, 7, 100),
       Transition(74, 1, 4, 800) >>

\* The pool from its (o+1)-th entry on, followed by its first o entries.
Rotated(o) ==
    SubSeq(TransitionPool, o + 1, Len(TransitionPool)) \o SubSeq(TransitionPool, 1, o)

TransitionLists ==
    {SubSeq(Rotated(o), 1, n) : o \in {0, 3}, n \in 0..Min2(MaxTransitions, Len(TransitionPool))}

\* What get_transitions finds for the elements of the materials.
DiscoveredLists == {<<>>, SubSeq(TransitionPool, 1, 2), TransitionPool}

DetectorVariants(transitions) ==
    {Det("PhotonSpectrumDetector", e, AzimFull, c, <<0, 20000>>, <<>>) :
        e \in {Elev1, Elev2}, c \in {500, 1000, 1500}}
    \cup {Det("PhotonIntensityDetector", e, AzimFull, 0, <<0, 0>>, <<>>) : e \in {Elev1, Elev2}}
    \cup {Det("PhotonDepthDetector", e, AzimFull, c, <<0, 0>>, transitions) :
            e \in {Elev1, Elev2}, c \in {50, 200}}
    \cup {Det("BackscatteredElectronEnergyDetector", <<0, 0>>, <<0, 0>>, 100, <<50, 20000>>, <<>>),
          Det("TransmittedElectronEnergyDetector", <<0, 0>>, <<0, 0>>, 200, <<0, 10000>>, <<>>)}
    \cup {Det(k, <<0, 0>>, <<0, 0>>, 0, <<0, 0>>, <<>>) : k \in LogKinds}

\* n intensity detectors, each with a window of its own.
FillDetectors(n) ==
    [i \in 1..n |-> Det("PhotonIntensityDetector", Elev1, FillAzim(i), 0, <<0, 0>>, <<>>)]

\* An interaction-forcing rule of a material.
Forcing(particle, collision, forcer, weight) ==
    [particle |-> particle, collision |-> collision, forcer |-> forcer, weight |-> weight]

ForcingVariants ==
    {Forcing("ELECTRON", c, f, <<1, 10>>) :
        c \in {"HARD_INELASTIC", "INNERSHELL_IMPACT_IONISATION"}, f \in {-2, 0, 3}}

\* The bodies of the geometry as get_bodies() returns them: not in index
\* order, one of them vacuum.
Bodies ==
    << [index |-> 2, material |-> "M2"], [index |-> 0, material |-> "M1"],
       [index |-> 1, material |-> "VACUUM"] >>

\* The materials: their forcing rules and electron absorption energy (eV).
Materials(rules1, rules2) ==
    [m \in {"M1", "M2", "VACUUM"} |->
        [interaction_forcings |-> IF m = "M1" THEN rules1 ELSE IF m = "M2" THEN rules2 ELSE <<>>,
         absorption_energy_eV |-> IF m = "M1" THEN 50 ELSE 100]]

\* The (material, mat file) pairs handed to the exporter.  status1 says how
\* the lookup of M1 ends: "ok", "absent" (no pair for it) or "unloadable".
MatInfos(status1) ==
    (IF status1 = "absent" THEN <<>> ELSE <<[material |-> "M1", loadable |-> status1 = "ok"]>>)
    \o <<[material |-> "M2", loadable |-> TRUE]>>

Beam ==
    [energy_eV |-> 20000, origin_m |-> <<0, 0, 1000>>,
     direction_polar_rad |-> <<1, 1>>, direction_azimuth_rad |-> <<0, 1>>,
     diameter_m |-> 10]

Options(detectors) ==
    [name |-> "test1", beam |-> Beam, detectors |-> detectors, limits |-> <<>>]

Negative2 == Forcing("ELECTRON", "INNERSHELL_IMPACT_IONISATION", -2, <<1, 10>>)
Positive3 == Forcing("PHOTON", "PHOTOELECTRIC_ABSORPTION", 3, <<2, 20>>)

\* One call of the exporter: the options, the geometry and the material table.
Input(detectors, rules1, rules2, status1, discovered) ==
    [options |-> Options(detectors),
     geoinfo |-> [bodies |-> Bodies, materials |-> Materials(rules1, rules2)],
     matinfos |-> MatInfos(status1),
     discovered |-> discovered]

\* Every short detector mapping, with the other inputs fixed.
InputsDetectors ==
    {Input(ds, <<>>, <<Positive3>>, "ok", <<>>) :
        ds \in SeqsUpTo(DetectorVariants(SubSeq(TransitionPool, 1, 2)), MaxDets)}

\* Mappings with NFill to NFill + 2 distinct windows.
InputsFill ==
    {Input(ds \o FillDetectors(NFill), <<r>>, <<>>, st, <<>>) :
        ds \in SeqsUpTo({Det("PhotonIntensityDetector", Elev1, AzimFull, 0, <<0, 0>>, <<>>),
                         Det("PhotonIntensityDetector", Elev2, AzimFull, 0, <<0, 0>>, <<>>),
                         Det("PhotonSpectrumDetector", Elev2, AzimFull, 1500, <<0, 20000>>, <<>>)},
                        MaxDets),
        r \in {Negative2}, st \in {"ok", "absent"}}

\* Every short list of forcing rules, resolvable or not.
InputsForcing ==
    {Input(ds, r1, r2, st, <<>>) :
        ds \in {<<>>, <<Det("PhotonIntensityDetector", Elev1, AzimFull, 0, <<0, 0>>, <<>>)>>},
        r1 \in SeqsUpTo(ForcingVariants, MaxRules),
        r2 \in {<<>>, <<Positive3>>},
        st \in {"ok", "absent", "unloadable"}}

\* Photon-depth detectors with every candidate list.
InputsTransitions ==
    {Input(ds, <<>>, <<>>, "ok", disc) :
        ds \in UNION {{ <<Det("PhotonDepthDetector", Elev1, AzimFull, 200, <<0, 0>>, ts)>>,
                         <<Det("PhotonSpectrumDetector", Elev2, AzimFull, 500, <<0, 20000>>, <<>>),
                           Det("PhotonDepthDetector", Elev1, AzimFull, 50, <<0, 0>>, ts)>> } :
                       ts \in TransitionLists},
        disc \in DiscoveredLists}

\* Two photon-depth detectors, over a material whose negative forcer can or
\* cannot be resolved.
InputsTwoDepth ==
    {Input(<< Det("PhotonDepthDetector", Elev1, AzimFull, 200, <<0, 0>>,
                  SubSeq(TransitionPool, 1, 2)),
              Det("PhotonDepthDetector", Elev2, AzimFull, 50, <<0, 0>>, <<>>) >>,
           <<Negative2>>, <<>>, st, <<>>) : st \in {"ok", "absent", "unloadable"}}

\* Other beams: energy (eV), origin and diameter (nm), direction (fractions
\* of pi).
BeamVariants ==
    {[energy_eV |-> e, origin_m |-> o, direction_polar_rad |-> p,
      direction_azimuth_rad |-> a, diameter_m |-> d] :
        e \in {5000, 20000}, o \in {<<0, 0, 1000>>, <<-25, 40, 7>>},
        p \in {<<1, 1>>, <<3, 4>>}, a \in {<<0, 1>>, <<1, 3>>}, d \in {0, 10}}

\* Every beam, with a stand-in block, an energy detector and a depth detector.
InputsBeam ==
    {[Input(ds, <<>>, <<>>, "ok", <<>>) EXCEPT !.options.beam = b] :
        b \in BeamVariants,
        ds \in {<<Det("PhotonDepthDetector", Elev1, AzimFull, 200, <<0, 0>>,
                       SubSeq(TransitionPool, 1, 2)),
                   Det("BackscatteredElectronEnergyDetector", <<0, 0>>, <<0, 0>>, 100,
                       <<50, 20000>>, <<>>)>>}}

\* The detector mappings whose import is followed through every directory.
ImportMappings ==
    LET spectrum(e) == Det("PhotonSpectrumDetector", e, AzimFull, 1000, <<0, 20000>>, <<>>)
        intensity(e) == Det("PhotonIntensityDetector", e, AzimFull, 0, <<0, 0>>, <<>>)
        depth(e) == Det("PhotonDepthDetector", e, AzimFull, 100, <<0, 0>>,
                        SubSeq(TransitionPool, 1, 2))
        log(k) == Det(k, <<0, 0>>, <<0, 0>>, 0, <<0, 0>>, <<>>)
        bse == Det("BackscatteredElectronEnergyDetector", <<0, 0>>, <<0, 0>>, 100,
                   <<0, 20000>>, <<>>)
        te == Det("TransmittedElectronEnergyDetector", <<0, 0>>, <<0, 0>>, 100,
                  <<0, 20000>>, <<>>)
    IN  { <<spectrum(Elev1)>>,
          <<intensity(Elev1), intensity(Elev2)>>,
          <<depth(Elev1)>>,
          <<spectrum(Elev2), depth(Elev1)>>,
          <<log("ElectronFractionDetector"), log("TimeDetector"),
            log("ShowersStatisticsDetector")>>,
          <<bse, te>>,
          <<spectrum(Elev1), log("TimeDetector"), intensity(Elev1)>> }

InputsImport == {Input(ds, <<>>, <<>>, "ok", <<>>) : ds \in ImportMappings}

\* The limits of the options: a number of showers, a time in seconds, or an
\* uncertainty (in 1/1000) on a transition seen by the detector of a key.
ShowersLimit(showers) == [kind |-> "ShowersLimit", value |-> showers]
TimeLimit(time_s) == [kind |-> "TimeLimit", value |-> time_s]
UncertaintyLimit(transition, detector_key, uncertainty) ==
    [kind |-> "UncertaintyLimit", transition |-> transition,
     detector_key |-> detector_key, uncertainty |-> uncertainty]

\* Limits of each class, two of them with another first value; the third
\* uncertainty limit names a detector that is not a delimited one.
LimitVariants ==
    { ShowersLimit(1000), ShowersLimit(12345678), TimeLimit(3600), TimeLimit(86399),
      UncertaintyLimit(TransitionPool[1], 2, 50),
      UncertaintyLimit(TransitionPool[4], 1, 10),
      UncertaintyLimit(TransitionPool[1], 3, 50) }

\* Every short list of limits, over a spectrum detector, an intensity
\* detector with another window and a time detector.
InputsLimits ==
    {[Input(<< Det("PhotonSpectrumDetector", Elev2, AzimFull, 500, <<0, 20000>>, <<>>),
               Det("PhotonIntensityDetector", Elev1, AzimFull, 0, <<0, 0>>, <<>>),
               Det("TimeDetector", <<0, 0>>, <<0, 0>>, 0, <<0, 0>>, <<>>) >>,
            <<>>, <<>>, "ok", <<>>) EXCEPT !.options.limits = ls] :
        ls \in SeqsUpTo(LimitVariants, MaxLimits)}

\* The attributes of get_settings().penepma: with or without a dumping period.
SettingsValues ==
    { [pendbase |-> "pendbase", dumpp |-> 30], [pendbase |-> "pendbase", dumpp |-> 120],
      [pendbase |-> "pendbase"] }

\* The transitions of one atomic number and one destination subshell, one
\* for each source subshell index.
TransitionsTo(z, dest) == [i \in 1..100 |-> Transition(z, dest, i - 1, 1000)]

\* Options with a photon-depth detector on every transition of an atomic
\* number 1..99 to a destination subshell 0..99, and an uncertainty limit on
\* one of them.
InputsCodes ==
    {[Input(<<Det("PhotonDepthDetector", Elev1, AzimFull, 100, <<0, 0>>, TransitionsTo(z, dest))>>,
            <<>>, <<>>, "ok", <<>>)
        EXCEPT !.options.limits =
                  <<UncertaintyLimit(Transition(z, dest, (z + dest) % 100, 1000), 1, 50)>>] :
        z \in 1..99, dest \in 0..99}

\* The settings of the process an input is exported in.
SettingsOf(in) ==
    IF in \in InputsLimits THEN SettingsValues ELSE {[pendbase |-> "pendbase", dumpp |-> 30]}

Inputs ==
    InputsDetectors \cup InputsFill \cup InputsForcing \cup InputsTransitions \cup InputsBeam
    \cup InputsImport \cup InputsLimits \cup InputsTwoDepth

\* ----------------------------------------------------------------- lines
Keyword(kw, args) == [kw |-> kw, args |-> args]
Comment(kw) == [kw |-> kw, args |-> <<>>]
COMMENT_SKIP == Comment("SKIP")

\* What a section hands back: the lines, the warnings recorded, the
\* material-property lookups made and the exception raised ("none": none).
Result(lines, warnings, lookups, raised) ==
    [lines |-> lines, warnings |-> warnings, lookups |-> lookups, raised |-> raised]

\* math.degrees of an angle n*pi/d radians, given as <<n, d>>.
Degrees(rad) == (180 * rad[1]) \div rad[2]

\* Mutant: the length is scaled a second time.
ToCm_Twice(m) == m * 100 * 100

\* A length in metres, in centimetres.
ToCm(m) == m * 100

\* Mutant: the source subshell is packed before the destination.
TransitionCode_SourceFirst(t) == t.z * 1000000 + t.src * 10000 + t.dest * 100

\* IZ*1e6+S1*1e4+S2*1e2
TransitionCode(t) == t.z * 1000000 + t.dest * 10000 + t.src * 100

_append_title(lines, options) ==
    lines \o << Keyword("TITLE", <<>>), COMMENT_SKIP >>

_append_electron_beam(lines, options) ==
    lines \o
    << Comment("C_ELECTROBEAM"),
       Keyword("SENERG", <<options.beam.energy_eV>>),
       Keyword("SPOSIT", [i \in 1..3 |-> ToCm(options.beam.origin_m[i])]),
       Keyword("SDIREC", <<Degrees(options.beam.direction_polar_rad),
                           Degrees(options.beam.direction_azimuth_rad)>>),
       Keyword("SAPERT", <<0>>),
       Keyword("SDIAM", <<ToCm(options.beam.diameter_m)>>),
       COMMENT_SKIP >>

\* The material section of the base exporter: one MFNAME and one MSIMPA
\* line per material file.
_append_material_data(lines, matinfos) ==
    lines \o <<Comment("C_MATERIALDATA")>>
          \o Flatten([i \in 1..Len(matinfos) |->
                        <<Keyword("MFNAME", <<i>>), Keyword("MSIMPA", <<i>>)>>])
          \o <<COMMENT_SKIP>>

\* The geometry section of the base exporter: the geometry file and one
\* DSMAX line per body.
_append_geometry(lines, geoinfo) ==
    lines \o <<Comment("C_GEOMETRY"), Keyword("GEOMFN", <<>>)>>
          \o [i \in 1..Len(geoinfo.bodies) |-> Keyword("DSMAX", <<geoinfo.bodies[i].index + 1>>)]
          \o <<COMMENT_SKIP>>

\* ------------------------------------------------- interaction forcing
_PARTICLES_REF(particle) ==
    CASE particle = "ELECTRON" -> 1 [] particle = "PHOTON" -> 2 [] particle = "POSITRON" -> 3

_COLLISIONS_REF(particle, collision) ==
    CASE collision = "HARD_ELASTIC" -> 2
      [] collision = "HARD_INELASTIC" -> 3
      [] collision = "HARD_BREMSSTRAHLUNG_EMISSION" -> 4
      [] collision = "INNERSHELL_IMPACT_IONISATION" -> 5
      [] collision = "COHERENT_RAYLEIGH_SCATTERING" -> 1
      [] collision = "INCOHERENT_COMPTON_SCATTERING" -> 2
      [] collision = "PHOTOELECTRIC_ABSORPTION" -> 3
      [] collision = "ELECTRON_POSITRON_PAIR_PRODUCTION" -> 4
      [] collision = "ANNIHILATION" -> 6
      [] collision = "DELTA" -> 7

\* MaterialInfo.range_m and MaterialInfo.meanfreepath_m of a material file,
\* in micrometres.
range_m(material, e0, kpar) == IF material = "M1" THEN 2 ELSE 4

meanfreepath_m(material, e0, kpar, icol) ==
    IF material = "M1" THEN (IF icol = 5 THEN 4 ELSE 3) ELSE 3

RECURSIVE Gcd(_, _)
Gcd(a, b) == IF b = 0 THEN a ELSE Gcd(b, a % b)

\* The quotient num / den as a fraction in lowest terms, <<numerator, denominator>>.
Fraction(num, den) ==
    LET g == Gcd(IF num < 0 THEN -num ELSE num, den)
    IN  IF g = 0 THEN <<0, 1>> ELSE <<num \div g, den \div g>>

Abs(x) == IF x < 0 THEN -x ELSE x

\* Mutant: the list get_bodies() returned is sorted in place.
BodiesAfterSorted_InPlace(bodies) ==
    [i \in 1..Len(bodies) |->
        CHOOSE b \in Range(bodies) :
            Cardinality({c \in Range(bodies) : c.index < b.index}) = i - 1]

\* The geometry's list of bodies once sorted(...) has been called on it:
\* sorted builds a new list.
BodiesAfterSorted(bodies) == bodies

\* Mutant: the bodies are taken in the order get_bodies() returns them.
SortedBodies_AsReturned(bodies) == bodies

\* The bodies in ascending index order.
SortedBodies(bodies) ==
    [i \in 1..Len(bodies) |->
        CHOOSE b \in Range(bodies) :
            Cardinality({c \in Range(bodies) : c.index < b.index}) = i - 1]

\* dict(matinfos)[material]: the pair of the material, or none (<<>>).
MatInfoOf(matinfos, material) ==
    LET hits == {i \in 1..Len(matinfos) : matinfos[i].material = material}
    IN  IF hits = {} THEN <<>> ELSE <<matinfos[CHOOSE i \in hits : \A j \in hits : j <= i]>>

\* Mutant: the range over the mean free path.
RecalculatedForcer_Inverted(forcer, material, e0, kpar, icol) ==
    Fraction(Abs(forcer) * range_m(material, e0, kpar), meanfreepath_m(material, e0, kpar, icol))

\* The forcer written for a rule with a negative forcer.
RecalculatedForcer(forcer, material, e0, kpar, icol) ==
    Fraction(Abs(forcer) * meanfreepath_m(material, e0, kpar, icol), range_m(material, e0, kpar))

\* Mutant: a material without a pair keeps its forcer as given.
ForceRule_Unchecked(acc, body, intforce, options, matinfos) ==
    LET kpar == _PARTICLES_REF(intforce.particle)
        icol == _COLLISIONS_REF(intforce.particle, intforce.collision)
        found == MatInfoOf(matinfos, body.material)
        forcer == IF intforce.forcer < 0 /\ found # <<>>
                  THEN RecalculatedForcer(intforce.forcer, body.material,
                                          options.beam.energy_eV, kpar, icol)
                  ELSE <<intforce.forcer, 1>>
    IN  IF acc.raised # "none" THEN acc
        ELSE [acc EXCEPT
                !.lookups = IF intforce.forcer < 0 /\ found # <<>>
                            THEN Append(@, body.material) ELSE @,
                !.lines = Append(@, Keyword("IFORCE",
                            <<body.index + 1, kpar, icol, forcer[1], forcer[2],
                              intforce.weight[1], intforce.weight[2]>>))]

\* One rule of one body: its IFORCE line, or the exception of the lookup.
ForceRule(acc, body, intforce, options, matinfos) ==
    LET kpar == _PARTICLES_REF(intforce.particle)
        icol == _COLLISIONS_REF(intforce.particle, intforce.collision)
        found == MatInfoOf(matinfos, body.material)
        e0 == options.beam.energy_eV
        line(forcer) ==
            Keyword("IFORCE", <<body.index + 1, kpar, icol, forcer[1], forcer[2],
                                intforce.weight[1], intforce.weight[2]>>)
    IN  IF acc.raised # "none" THEN acc
        ELSE IF intforce.forcer < 0
        THEN IF found = <<>> THEN [acc EXCEPT !.raised = "KeyError"]
             ELSE IF ~found[1].loadable
             THEN [acc EXCEPT !.lookups = Append(@, body.material), !.raised = "IOError"]
             ELSE [acc EXCEPT !.lookups = Append(@, body.material),
                              !.lines = Append(@, line(RecalculatedForcer(
                                            intforce.forcer, body.material, e0, kpar, icol)))]
        ELSE [acc EXCEPT !.lines = Append(@, line(<<intforce.forcer, 1>>))]

RECURSIVE ForceRules(_, _, _, _, _)
ForceRules(acc, body, rules, options, matinfos) ==
    IF rules = <<>> THEN acc
    ELSE ForceRules(ForceRule(acc, body, Head(rules), options, matinfos),
                    body, Tail(rules), options, matinfos)

RECURSIVE ForceBodies(_, _, _, _, _)
ForceBodies(acc, bodies, options, geoinfo, matinfos) ==
    IF bodies = <<>> THEN acc
    ELSE LET body == Head(bodies)
             next == IF body.material = "VACUUM" THEN acc
                     ELSE ForceRules(acc, body,
                                     geoinfo.materials[body.material].interaction_forcings,
                                     options, matinfos)
         IN  ForceBodies(next, Tail(bodies), options, geoinfo, matinfos)

_append_interaction_forcing(lines, options, geoinfo, matinfos) ==
    LET r == ForceBodies(Result(Append(lines, Comment("C_INTERACTION")), <<>>, <<>>, "none"),
                         SortedBodies(geoinfo.bodies), options, geoinfo, matinfos)
    IN  IF r.raised # "none" THEN r ELSE [r EXCEPT !.lines = Append(@, COMMENT_SKIP)]

\* -------------------------------------------- emerging particles section
RECURSIVE SeqMin(_)
SeqMin(s) == IF Len(s) = 1 THEN s[1] ELSE Min2(s[1], SeqMin(Tail(s)))

RECURSIVE SeqMax(_)
SeqMax(s) == IF Len(s) = 1 THEN s[1] ELSE Max2(s[1], SeqMax(Tail(s)))

_append_emerging_particles_distribution(lines, options) ==
    LET keys == IterClass(options.detectors, {"BackscatteredElectronEnergyDetector"})
                \o IterClass(options.detectors, {"TransmittedElectronEnergyDetector"})
        detectors == [i \in 1..Len(keys) |-> options.detectors[keys[i]]]
        lowlimit == SeqMin([i \in 1..Len(keys) |-> detectors[i].limits[1]])
        highlimit == SeqMax([i \in 1..Len(keys) |-> detectors[i].limits[2]])
        channels == SeqMax([i \in 1..Len(keys) |-> detectors[i].channels])
    IN  IF keys = <<>>
        THEN lines \o <<Comment("C_EMERGINGDIST"), COMMENT_SKIP>>
        ELSE lines \o <<Comment("C_EMERGINGDIST"),
                        Keyword("NBE", <<lowlimit, highlimit, channels>>),
                        COMMENT_SKIP>>

\* ---------------------------------------------- photon detectors section
\* Mutant: the last spectrum detector among them is taken.
BlockDetector_LastSpectrum(options, keys) ==
    LET spectrum == {i \in 1..Len(keys) :
                        options.detectors[keys[i]].kind = "PhotonSpectrumDetector"}
        first == options.detectors[keys[1]]
    IN  IF spectrum = {}
        THEN Det("PhotonSpectrumDetector", first.elevation, first.azimuth,
                 FAKE_CHANNELS, <<0, options.beam.energy_eV>>, <<>>)
        ELSE options.detectors[keys[CHOOSE i \in spectrum : \A j \in spectrum : i >= j]]

\* The detector whose window and energy channels describe the block of the
\* detectors named by keys: the first spectrum detector among them, or a
\* stand-in built from the first detector.
BlockDetector(options, keys) ==
    LET spectrum == {i \in 1..Len(keys) :
                        options.detectors[keys[i]].kind = "PhotonSpectrumDetector"}
        first == options.detectors[keys[1]]
    IN  IF spectrum = {}
        THEN Det("PhotonSpectrumDetector", first.elevation, first.azimuth,
                 FAKE_CHANNELS, <<0, options.beam.energy_eV>>, <<>>)
        ELSE options.detectors[keys[CHOOSE i \in spectrum : \A j \in spectrum : i <= j]]

\* Mutant: the requested count is written as it is.
ClampChannels_NoClamp(channels) == channels

\* The channel count written for a requested count.
ClampChannels(channels) ==
    IF channels > MAX_PHOTON_DETECTOR_CHANNEL THEN MAX_PHOTON_DETECTOR_CHANNEL ELSE channels

\* Whether the requested count draws the warning.
ExceedsChannels(channels) == channels > MAX_PHOTON_DETECTOR_CHANNEL

Warning(what, index) == [category |-> "ExporterWarning", what |-> what, index |-> index]

\* Mutant: the comment numbers the detectors from 0.
BlockComment_ZeroBased(index, keys) == Keyword("C_DETECTOR", <<index>> \o keys)

\* 'Detector %i used by %s' % (index + 1, ', '.join(keys))
BlockComment(index, keys) == Keyword("C_DETECTOR", <<index + 1>> \o keys)

\* Mutant: the two complements are written in the order of the limits.
InvertedElevation_Unordered(elevation_deg) == <<90 - elevation_deg[1], 90 - elevation_deg[2]>>

\* The elevation window measured from the z axis instead of from the x-y
\* plane, lower value first.
InvertedElevation(elevation_deg) ==
    LET low == 90 - elevation_deg[1]
        high == 90 - elevation_deg[2]
    IN  <<Min2(low, high), Max2(low, high)>>

\* The block of one index: comment, PDANGL, PDENER, skip marker.
DetectorBlock(acc, options, index, keys) ==
    LET detector == BlockDetector(options, keys)
        elevation_deg == InvertedElevation(detector.elevation)
        channels == ClampChannels(detector.channels)
    IN  [acc EXCEPT
            !.warnings = IF ExceedsChannels(detector.channels)
                         THEN Append(@, Warning("channels", index + 1)) ELSE @,
            !.lines = @ \o << BlockComment(index, keys),
                              Keyword("PDANGL", <<elevation_deg[1], elevation_deg[2],
                                                  detector.azimuth[1], detector.azimuth[2], 0>>),
                              Keyword("PDENER", <<detector.limits[1], detector.limits[2], channels>>),
                              COMMENT_SKIP >>]

RECURSIVE DetectorBlocks(_, _, _, _)
DetectorBlocks(acc, options, indexes, phdets_index_keys) ==
    IF indexes = <<>> THEN acc
    ELSE DetectorBlocks(DetectorBlock(acc, options, Head(indexes), phdets_index_keys[Head(indexes)]),
                        options, Tail(indexes), phdets_index_keys)

\* Mutant: the limit itself is refused.
TooManyDetectors_AtLimit(n) == n >= MAX_PHOTON_DETECTORS

\* Whether the number of detector blocks is over the limit of PENEPMA.
TooManyDetectors(n) == n > MAX_PHOTON_DETECTORS

_append_photon_detectors(lines, options, phdets_index_keys) ==
    LET start == Result(Append(lines, Comment("C_DETECTORS")), <<>>, <<>>, "none")
        indexes == DOMAIN phdets_index_keys
    IN  IF TooManyDetectors(Cardinality(indexes))
        THEN [start EXCEPT !.raised = "ExporterException"]
        ELSE DetectorBlocks(start, options, Ascending(indexes), phdets_index_keys)

\* ------------------------------------------ spatial distribution section
\* t inserted into ts, sorted by descending probability, after the entries
\* of at least its probability.
InsertByProbability(ts, t) ==
    LET n == Cardinality({i \in 1..Len(ts) : ts[i].probability >= t.probability})
    IN  SubSeq(ts, 1, n) \o <<t>> \o SubSeq(ts, n + 1, Len(ts))

RECURSIVE SortByProbability(_)
\* transitions.sort(key=attrgetter('probability'), reverse=True): stable.
SortByProbability(ts) ==
    IF ts = <<>> THEN <<>>
    ELSE InsertByProbability(SortByProbability(SubSeq(ts, 1, Len(ts) - 1)), ts[Len(ts)])

\* Mutant: the detector's own list is the one that is sorted.
OwnListAfterSort_Aliased(own) == SortByProbability(own)

\* The detector's own list of transitions once list(detector.transitions)
\* has been sorted: the sort is of the copy.
OwnListAfterSort(own) == own

\* Most transitions kept: each takes two of the XRLINE slots.
MaxKept == MAX_SPATIAL_DISTRIBUTION \div 2

\* Mutant: every XRLINE slot takes a transition.
Restrain_NoHalving(ts) ==
    IF Len(ts) > MAX_SPATIAL_DISTRIBUTION THEN SubSeq(ts, 1, MAX_SPATIAL_DISTRIBUTION) ELSE ts

\* The transitions kept of a sorted candidate list.
Restrain(ts) == IF Len(ts) > MaxKept THEN SubSeq(ts, 1, MaxKept) ELSE ts

\* The candidate list: the detector's own, or the one discovered for the
\* elements of the materials.
Candidates(detector, discovered) ==
    IF detector.transitions = <<>> THEN discovered ELSE detector.transitions

\* Mutant: an empty discovery goes unreported.
NoTransitionFound_Silent(detector, candidates) == FALSE

\* Whether the discovery was asked for and found nothing.
NoTransitionFound(detector, candidates) == detector.transitions = <<>> /\ candidates = <<>>

\* photon_range(e0, material, transition), in nanometres.
photon_range(e0, material, transition) ==
    (IF material = "M1" THEN 10 ELSE 20) * transition.z

\* options.geometry.get_materials()
GetMaterials(geoinfo) == {b.material : b \in Range(geoinfo.bodies)} \ {"VACUUM"}

\* Mutant: the depth is the largest range, 0 without a transition.
ZMax_NoMinimum(e0, materials, transitions) ==
    LET ranges == {3 * photon_range(e0, m, transitions[i]) :
                       m \in materials, i \in 1..Len(transitions)} \cup {0}
    IN  CHOOSE z \in ranges : \A y \in ranges : y <= z

\* Depth of the box, in nanometres: at least 1e-8 m.
ZMax(e0, materials, transitions) ==
    LET ranges == {3 * photon_range(e0, m, transitions[i]) :
                       m \in materials, i \in 1..Len(transitions)} \cup {10}
    IN  CHOOSE z \in ranges : \A y \in ranges : y <= z

XRLines(transitions, index) ==
    Flatten([i \in 1..Len(transitions) |->
                << Keyword("XRLINE", <<TransitionCode(transitions[i]), 0>>),
                   Keyword("XRLINE", <<TransitionCode(transitions[i]), index>>) >>])

_append_spatial_distribution(lines, options, geoinfo, discovered, phdets_key_index) ==
    LET start == Result(Append(lines, Comment("C_SPATIALDIST")), <<>>, <<>>, "none")
        keys == IterClass(options.detectors, {"PhotonDepthDetector"})
        key == keys[1]
        detector == options.detectors[key]
        candidates == Candidates(detector, discovered)
        sorted == SortByProbability(candidates)
        transitions == Restrain(sorted)
        warnings == (IF NoTransitionFound(detector, candidates)
                     THEN <<Warning("no transition", 0)>> ELSE <<>>)
                    \o (IF Len(sorted) > MaxKept
                        THEN <<Warning("too many transitions", Len(sorted))>> ELSE <<>>)
        zmax_m == ZMax(options.beam.energy_eV, GetMaterials(geoinfo), transitions)
        channels == Min2(MAX_DEPTH_CHANNELS, detector.channels)
    IN  IF keys = <<>> THEN [start EXCEPT !.lines = Append(@, COMMENT_SKIP)]
        ELSE IF Len(keys) # 1 THEN [start EXCEPT !.raised = "ExporterException"]
        ELSE [start EXCEPT
                !.warnings = warnings,
                !.lines = @ \o << Keyword("GRIDX", <<-3, 3, 1>>),
                                  Keyword("GRIDY", <<-3, 3, 1>>),
                                  Keyword("GRIDZ", <<-ToCm(zmax_m), 0, channels>>) >>
                            \o XRLines(transitions, phdets_key_index[key] + 1)
                            \o <<COMMENT_SKIP>>]

\* ------------------------------------------------ job properties section
\* The limits of a kind, in the order of options.limits.
LimitsOf(options, kind) ==
    LET idx == Ascending({i \in 1..Len(options.limits) : options.limits[i].kind = kind})
    IN  [i \in 1..Len(idx) |-> options.limits[idx[i]]]

\* '%e' of 1e38, as <<mantissa, exponent>>: the number mantissa * 10^exponent.
Unlimited == <<1, 38>>

RECURSIVE Pow10(_)
Pow10(k) == IF k = 0 THEN 1 ELSE 10 * Pow10(k - 1)

RECURSIVE NumDigits(_)
\* The number of decimal digits of a natural number.
NumDigits(n) == IF n < 10 THEN 1 ELSE 1 + NumDigits(n \div 10)

\* n / 10^k rounded to the nearest integer, a tie to the even one.
RoundHalfEven(n, k) ==
    LET unit == Pow10(k)
        q == n \div unit
        r == n % unit
    IN  IF 2 * r > unit \/ (2 * r = unit /\ q % 2 = 1) THEN q + 1 ELSE q

RECURSIVE Normalized(_)
\* <<mantissa, exponent>> with the trailing zeros of the mantissa moved into
\* the exponent.
Normalized(me) ==
    IF me[1] = 0 THEN <<0, 0>>
    ELSE IF me[1] % 10 = 0 THEN Normalized(<<me[1] \div 10, me[2] + 1>>)
    ELSE me

\* '%e' % n of a natural number: one digit before the point and six after
\* it, the digits beyond them rounded away.
FormatE(n) ==
    LET k == NumDigits(n)
    IN  IF k <= 7 THEN Normalized(<<n, 0>>)
        ELSE Normalized(<<RoundHalfEven(n, k - 7), k - 7>>)

\* getattr(get_settings().penepma, 'dumpp', 60.0)
Dumpp(penepma) == IF "dumpp" \in DOMAIN penepma THEN penepma.dumpp ELSE DEFAULT_DUMPP

_append_job_properties(lines, options, dumpp, phdets_key_index) ==
    LET start == lines \o << Comment("C_JOBPROP"), Keyword("RESUME", <<>>),
                             Keyword("DUMPTO", <<>>), Keyword("DUMPP", <<dumpp>>),
                             COMMENT_SKIP >>
        uncertainty == LimitsOf(options, "UncertaintyLimit")
        showers == LimitsOf(options, "ShowersLimit")
        time == LimitsOf(options, "TimeLimit")
        limit == uncertainty[1]
        tail == << Keyword("NSIMSH", IF showers = <<>> THEN Unlimited ELSE FormatE(showers[1].value)),
                   Keyword("TIME", IF time = <<>> THEN Unlimited ELSE FormatE(time[1].value)),
                   COMMENT_SKIP >>
    IN  IF uncertainty = <<>> THEN Result(start \o tail, <<>>, <<>>, "none")
        ELSE IF limit.detector_key \notin DOMAIN phdets_key_index
        THEN Result(start, <<>>, <<>>, "KeyError")
        ELSE Result(start \o << Keyword("REFLIN", <<TransitionCode(limit.transition),
                                                    phdets_key_index[limit.detector_key] + 1,
                                                    limit.uncertainty>>) >> \o tail,
                    <<>>, <<>>, "none")

\* ------------------------------------------------------------- the calls
\* The detectors the exporter hands to index_delimited_detectors.
ExporterDets(options) == IterClass(options.detectors, DelimitedKinds)

\* Mutant: the photon-depth detectors are left out.
ImporterDets_NoDepth(options) ==
    IterClass(options.detectors, {"PhotonSpectrumDetector", "PhotonIntensityDetector"})

\* The detectors the importer hands to index_delimited_detectors.
ImporterDets(options) == IterClass(options.detectors, DelimitedKinds)

\* Mutant: the spatial distribution is created before the photon detectors.
SectionOrder_Swapped ==
    << "title", "electron_beam", "material_data", "geometry", "interaction_forcing",
       "emerging_particles_distribution", "spatial_distribution", "photon_detectors",
       "job_properties", "end", "write" >>

\* The steps of _create_input_file, in the order it takes them.
SectionOrder ==
    << "title", "electron_beam", "material_data", "geometry", "interaction_forcing",
       "emerging_particles_distribution", "photon_detectors", "spatial_distribution",
       "job_properties", "end", "write" >>

\* The step after a step; "done" after the last.
After(step) ==
    LET i == CHOOSE j \in 1..Len(SectionOrder) : SectionOrder[j] = step
    IN  IF i = Len(SectionOrder) THEN "done" ELSE SectionOrder[i + 1]

NoFile == [exists |-> FALSE, lines |-> <<>>]

\* Mutant: the dumping period is the default one whatever the settings say.
SettingsRead_Ignored(penepma) == [pendbase |-> "pendbase"]

\* The settings object _append_job_properties reads: that of the process.
SettingsRead(penepma) == penepma

\* _create_input_file as a function of its arguments and of the settings of
\* the process: the sections in their order, up to the first that raises.
_create_input_file(in, penepma) ==
    LET phd == index_delimited_detectors(in.options.detectors, ExporterDets(in.options))
        title == _append_title(<<>>, in.options)
        beam == _append_electron_beam(title, in.options)
        material == _append_material_data(beam, in.matinfos)
        geometry == _append_geometry(material, in.geoinfo)
        forcing == _append_interaction_forcing(geometry, in.options, in.geoinfo, in.matinfos)
        emerging == _append_emerging_particles_distribution(forcing.lines, in.options)
        detectors == _append_photon_detectors(emerging, in.options, phd.index_keys)
        spatial == _append_spatial_distribution(detectors.lines, in.options, in.geoinfo,
                                                in.discovered, phd.key_index)
        job == _append_job_properties(spatial.lines, in.options, Dumpp(SettingsRead(penepma)),
                                      phd.key_index)
    IN  IF forcing.raised # "none" THEN forcing
        ELSE IF detectors.raised # "none" THEN detectors
        ELSE IF spatial.raised # "none" THEN spatial
        ELSE IF job.raised # "none" THEN job
        ELSE [job EXCEPT !.lines = Append(@, Keyword("END", <<>>))]
NoIndex == [key_index |-> <<>>, index_keys |-> <<>>]

\* ================================================================ importer
\* ------------------------------------------------------ the output files
\* A field of a line of text: a number (its value) or another word.
Num(v) == [num |-> TRUE, v |-> v, w |-> ""]
Word(w) == [num |-> FALSE, v |-> 0, w |-> w]

\* A line of a table file: a comment ('#' first after the strip), a blank
\* line, or a row of fields.
CommentLine == [kind |-> "comment", fields |-> <<>>]
BlankLine == [kind |-> "blank", fields |-> <<>>]
Row(fields) == [kind |-> "row", fields |-> fields]

RECURSIVE Digits(_)
\* str(n) of a natural number, most significant digit first.
Digits(n) == IF n < 10 THEN <<n>> ELSE Append(Digits(n \div 10), n % 10)

\* Mutant: no padding.
ZFill_NoPadding(digits, width) == digits

\* str.zfill: zeros in front up to the width.
ZFill(digits, width) ==
    [i \in 1..(width - Len(digits)) |-> 0] \o digits

\* os.path.join(path, '<stem>-NN.dat') and os.path.join(path, '<stem>.dat'):
\* the stem and the digits after it.
IndexedPath(stem, index) == [stem |-> stem, nn |-> ZFill(Digits(index), 2)]
FixedPath(stem) == [stem |-> stem, nn |-> <<>>]
NoPath == [stem |-> "", nn |-> <<>>]

File(path, content) == [path |-> path, content |-> content]

\* os.path.exists
Exists(dir, path) == \E f \in dir : f.path = path

\* The content of an existing file.
ContentOf(dir, path) == (CHOOSE f \in dir : f.path = path).content

\* ------------------------------------------------------------ outcomes
\* What a routine hands back: its result, or the exception it raised with the
\* path its message names; and the files it opened, in order.
NoResult == [type |-> "none"]
Returned(result, reads) ==
    [raised |-> "none", result |-> result, path |-> NoPath, reads |-> reads]
Raised(exception, path, reads) ==
    [raised |-> exception, result |-> NoResult, path |-> path, reads |-> reads]

\* float(): the value of a numeric field.
IsFloat(field) == field.num

\* ------------------------------------------------------- _load_dat_files
\* The first three fields of a row, or the error their parse ends with: a
\* missing field is an IndexError, a field that is no number a ValueError,
\* whichever the left-to-right parse meets first.
ThreeColumns(fields) ==
    LET bad == {j \in 1..3 : j > Len(fields) \/ ~IsFloat(fields[j])}
        first == CHOOSE j \in bad : \A i \in bad : j <= i
    IN  IF bad = {} THEN [raised |-> "none", row |-> <<fields[1].v, fields[2].v, fields[3].v>>]
        ELSE [raised |-> IF first > Len(fields) THEN "IndexError" ELSE "ValueError", row |-> <<>>]

\* The lines _load_dat_files parses: not the comments, not the blank lines.
IsDataLine(line) == line.kind = "row"

\* _load_dat_files(filepath): the rows (bin, value, uncertainty) in file
\* order, or the error of the first row that does not parse.
_load_dat_files(content) ==
    LET data == SelectSeq(content, IsDataLine)
        parsed == [i \in 1..Len(data) |-> ThreeColumns(data[i].fields)]
        failed == {i \in 1..Len(data) : parsed[i].raised # "none"}
    IN  IF failed = {}
        THEN [raised |-> "none", rows |-> [i \in 1..Len(data) |-> parsed[i].row]]
        ELSE [raised |-> parsed[CHOOSE i \in failed : \A j \in failed : i <= j].raised,
              rows |-> <<>>]

\* ------------------------------------------------ _import_photon_spectrum
\* Mutant: the background is a copy of the total.
Background_Total(rows) == rows

\* np.zeros(total.shape) with the energies in its first column.
Background(rows) == [i \in 1..Len(rows) |-> <<rows[i][1], 0, 0>>]

\* Mutant: the index is used as the resolver counts it.
OneBased_ZeroBased(index) == index

\* A detector index as the file names count it.
OneBased(index) == index + 1

_import_photon_spectrum(dir, key, phdets_key_index) ==
    LET spect_filepath == IndexedPath("pe-spect", OneBased(phdets_key_index[key]))
        table == _load_dat_files(ContentOf(dir, spect_filepath))
    IN  IF ~Exists(dir, spect_filepath)
        THEN Raised("ImporterException", spect_filepath, <<>>)
        ELSE IF table.raised # "none" THEN Raised(table.raised, NoPath, <<spect_filepath>>)
        ELSE Returned([type |-> "PhotonSpectrumResult", total |-> table.rows,
                       background |-> Background(table.rows)],
                      <<spect_filepath>>)

\* --------------------------------- _import_*_electron_energy
ElectronEnergy(dir, stem, type) ==
    LET filepath == FixedPath(stem)
        table == _load_dat_files(ContentOf(dir, filepath))
    IN  IF ~Exists(dir, filepath)
        THEN Raised("ImporterException", filepath, <<>>)
        ELSE IF table.raised # "none" THEN Raised(table.raised, NoPath, <<filepath>>)
        ELSE Returned([type |-> type, data |-> table.rows], <<filepath>>)

_import_backscattered_electron_energy(dir) ==
    ElectronEnergy(dir, "pe-energy-el-up", "BackscatteredElectronEnergyResult")

_import_transmitted_electron_energy(dir) ==
    ElectronEnergy(dir, "pe-energy-el-down", "TransmittedElectronEnergyResult")

\* ---------------------------------------------------------------- _read_log
\* A line of penepma-res.dat after the strip.  An entry line has the shape
\* 'name ....  value' or 'name ....  value +- uncertainty' the pattern
\* matches: name is group 1, val group 2 and unc group 3 (Word("") when the
\* group is empty); any other line is text.
LogEntry(name, val, unc) == [shape |-> "entry", name |-> name, val |-> val, unc |-> unc]
LogText == [shape |-> "text", name |-> "", val |-> Word(""), unc |-> Word("")]

\* A mapping with one more entry, replacing the entry of the same key.
Put(map, key, value) ==
    [k \in (DOMAIN map) \cup {key} |-> IF k = key THEN value ELSE map[k]]

\* Mutant: a missing uncertainty is taken to be the value.
DefaultUncertainty_Value(val) == val

\* float(match.group(3) or 0.0) of an empty group 3.
DefaultUncertainty(val) == 0

RECURSIVE ReadLogLines(_, _)
\* The loop of _read_log over the lines left, from the table so far.
ReadLogLines(log, ls) ==
    IF ls = <<>> THEN [raised |-> "none", log |-> log]
    ELSE LET line == Head(ls)
         IN  IF line.shape # "entry" THEN ReadLogLines(log, Tail(ls))
             ELSE IF ~IsFloat(line.val) THEN [raised |-> "ValueError", log |-> log]
             ELSE IF line.unc = Word("")
                  THEN ReadLogLines(Put(log, line.name,
                                        <<line.val.v, DefaultUncertainty(line.val.v)>>),
                                    Tail(ls))
             ELSE IF ~IsFloat(line.unc) THEN [raised |-> "ValueError", log |-> log]
             ELSE ReadLogLines(Put(log, line.name, <<line.val.v, line.unc.v>>), Tail(ls))

LogPath == FixedPath("penepma-res")

\* _read_log(path): the table name -> (value, uncertainty).
_read_log(dir) ==
    LET r == ReadLogLines(<<>>, ContentOf(dir, LogPath))
    IN  IF ~Exists(dir, LogPath)
        THEN [raised |-> "ImporterException", path |-> LogPath, reads |-> <<>>, log |-> <<>>]
        ELSE [raised |-> r.raised, path |-> NoPath, reads |-> <<LogPath>>, log |-> r.log]

\* The table of the log for a routine that reads the named entries: the
\* exception of _read_log, or a KeyError for a missing entry, comes first.
ReadEntries(dir, names) ==
    LET r == _read_log(dir)
    IN  IF r.raised # "none"
        THEN [ok |-> FALSE, out |-> Raised(r.raised, r.path, r.reads), log |-> <<>>]
        ELSE IF \E n \in names : n \notin DOMAIN r.log
        THEN [ok |-> FALSE, out |-> Raised("KeyError", NoPath, r.reads), log |-> <<>>]
        ELSE [ok |-> TRUE, out |-> Returned(NoResult, r.reads), log |-> r.log]

ElectronFractionResult(absorbed, backscattered, transmitted) ==
    [type |-> "ElectronFractionResult", absorbed |-> absorbed,
     backscattered |-> backscattered, transmitted |-> transmitted]

_import_electron_fraction(dir) ==
    LET e == ReadEntries(dir, {"Absorption fraction", "Upbound fraction", "Downbound fraction"})
    IN  IF ~e.ok THEN e.out
        ELSE Returned(ElectronFractionResult(e.log["Absorption fraction"],
                                             e.log["Upbound fraction"],
                                             e.log["Downbound fraction"]),
                      <<LogPath>>)

\* 1.0 / speed as a fraction in lowest terms, with uncertainty 0.
_import_time(dir) ==
    LET e == ReadEntries(dir, {"Simulation time", "Simulation speed"})
    IN  IF ~e.ok THEN e.out
        ELSE IF e.log["Simulation speed"][1] = 0
        THEN Raised("ZeroDivisionError", NoPath, <<LogPath>>)
        ELSE Returned([type |-> "TimeResult",
                       simulation_time_s |-> e.log["Simulation time"][1],
                       simulation_speed_s |->
                           <<Fraction(1, e.log["Simulation speed"][1]), 0>>],
                      <<LogPath>>)

_import_showers_statistics(dir) ==
    LET e == ReadEntries(dir, {"Simulated primary showers"})
    IN  IF ~e.ok THEN e.out
        ELSE Returned([type |-> "ShowersStatisticsResult",
                       showers |-> e.log["Simulated primary showers"][1]],
                      <<LogPath>>)

\* ----------------------------------------------- _import_photon_intensity
\* The names of the subshells by their index.
IupacOrder ==
    << "K", "L1", "L2", "L3", "M1", "M2", "M3", "M4", "M5",
       "N1", "N2", "N3", "N4", "N5", "N6", "N7" >>

\* The subshell names Subshell(z, iupac=...) knows; any other raises
\* ValueError.
IupacNames == Range(IupacOrder)

IsSubshell(field) == ~field.num /\ field.w \in IupacNames

\* Transition(z, src, dst)
XrayTransition(z, src, dst) == [z |-> z, src |-> src, dst |-> dst]
NoTransition == XrayTransition(0, "", "")

PhotonKey(transition, absorption, kind) ==
    [transition |-> transition, absorption |-> absorption, kind |-> kind]

\* The fields _read_intensities_line turns into floats, in the order it does:
\* values[4], [5] (no fluorescence), [6], [7] (characteristic), [8], [9]
\* (bremsstrahlung), [12], [13] (total); counted from 1 here.
FloatColumns == <<5, 6, 7, 8, 9, 10, 13, 14>>

\* Mutant: the total is read from values[10], [11].
TotalColumns_Skipped == <<11, 12>>

\* values[12], [13], counted from 1.
TotalColumns == <<13, 14>>

\* _read_intensities_line(line): the transition (NoTransition for None) and
\* the pairs cf, bf, nf, t; or the exception that leaves the function.
_read_intensities_line(fields) ==
    LET none == [raised |-> "none", transition |-> NoTransition,
                 cf |-> <<0, 0>>, bf |-> <<0, 0>>, nf |-> <<0, 0>>, t |-> <<0, 0>>]
        error(e) == [none EXCEPT !.raised = e]
        bad == {j \in 1..Len(FloatColumns) :
                   FloatColumns[j] > Len(fields) \/ ~IsFloat(fields[FloatColumns[j]])}
        first == FloatColumns[CHOOSE j \in bad : \A i \in bad : j <= i]
        pair(i, j) == <<fields[i].v, fields[j].v>>
    IN  IF Len(fields) < 1 THEN error("IndexError")
        ELSE IF ~fields[1].num THEN none
        ELSE IF Len(fields) < 3 THEN error("IndexError")
        ELSE IF ~IsSubshell(fields[3]) \/ ~IsSubshell(fields[2]) THEN none
        ELSE IF bad # {}
             THEN error(IF first > Len(fields) THEN "IndexError" ELSE "ValueError")
        ELSE [raised |-> "none",
              transition |-> XrayTransition(fields[1].v, fields[3].w, fields[2].w),
              cf |-> pair(7, 8), bf |-> pair(9, 10), nf |-> pair(5, 6),
              t |-> pair(TotalColumns[1], TotalColumns[2])]

RECURSIVE LoadIntensities(_, _, _)
\* One of the two loops over the lines of a table: the entries so far, the
\* lines left, and the absorption flag of the keys this table fills.
LoadIntensities(intensities, ls, absorption) ==
    IF ls = <<>> THEN [raised |-> "none", intensities |-> intensities]
    ELSE IF Head(ls).kind = "comment" THEN LoadIntensities(intensities, Tail(ls), absorption)
    ELSE LET r == _read_intensities_line(Head(ls).fields)
             tr == r.transition
         IN  IF r.raised # "none" THEN [raised |-> r.raised, intensities |-> intensities]
             ELSE IF tr = NoTransition THEN LoadIntensities(intensities, Tail(ls), absorption)
             ELSE LoadIntensities(
                      Put(Put(Put(Put(intensities,
                                      PhotonKey(tr, absorption, "C"), r.cf),
                                  PhotonKey(tr, absorption, "B"), r.bf),
                              PhotonKey(tr, absorption, "P"), r.nf),
                          PhotonKey(tr, absorption, "T"), r.t),
                      Tail(ls), absorption)

GeneratedPath == FixedPath("pe-gen-ph")

_import_photon_intensity(dir, key, phdets_key_index) ==
    LET emitted_filepath == IndexedPath("pe-intens", OneBased(phdets_key_index[key]))
        generated == LoadIntensities(<<>>, ContentOf(dir, GeneratedPath), FALSE)
        emitted == LoadIntensities(generated.intensities, ContentOf(dir, emitted_filepath), TRUE)
    IN  IF ~Exists(dir, emitted_filepath)
        THEN Raised("ImporterException", emitted_filepath, <<>>)
        ELSE IF ~Exists(dir, GeneratedPath)
        THEN Raised("ImporterException", GeneratedPath, <<>>)
        ELSE IF generated.raised # "none"
        THEN Raised(generated.raised, NoPath, <<GeneratedPath>>)
        ELSE IF emitted.raised # "none"
        THEN Raised(emitted.raised, NoPath, <<GeneratedPath, emitted_filepath>>)
        ELSE Returned([type |-> "PhotonIntensityResult", intensities |-> emitted.intensities],
                      <<GeneratedPath, emitted_filepath>>)

\* --------------------------------------------------- _import_photon_depth
\* The content of a pe-map-*-depth.dat file: what its second line gives the
\* pattern ("match": the groups z, dest, src and detector; "nomatch": a
\* line the pattern does not match; "nocolon": a line without ':'; "short":
\* no second line) and the numeric rows after the 6 header rows.
MapHeader(shape, z, dest, src, detector) ==
    [shape |-> shape, z |-> z, dest |-> dest, src |-> src, detector |-> detector]
MapContent(header, body) == [header |-> header, body |-> body]

MapStem == "pe-map-depth"
MapPath(name) == [stem |-> MapStem, nn |-> <<name>>]

\* Mutant: the values are left in centimetres.
ToM_Unscaled(cm) == Fraction(cm, 1)

\* datum *= 1e-2: a value in cm, in m, as a fraction in lowest terms.
ToM(cm) == Fraction(cm, 100)

\* np.genfromtxt(filepath, skip_header=6), times 1e-2.
Datum(body) == [i \in 1..Len(body) |-> [j \in 1..Len(body[i]) |-> ToM(body[i][j])]]

\* The key a map is stored under, by the detector index of its header.
MapKey(transition, detector_index) == PhotonKey(transition, detector_index # 0, "T")

\* One pass of the loop: the key and the data of one map file, or the
\* exception reading it ends with.
ReadMap(content, key, phdets_key_index) ==
    LET h == content.header
        none == [raised |-> "none", photonkey |-> PhotonKey(NoTransition, FALSE, "T"),
                 datum |-> <<>>]
        error(e) == [none EXCEPT !.raised = e]
    IN  IF h.shape = "short" THEN error("StopIteration")
        ELSE IF h.shape = "nocolon" THEN error("IndexError")
        ELSE IF h.shape = "nomatch" THEN error("AttributeError")
        ELSE IF ~IsSubshell(Word(h.src)) \/ ~IsSubshell(Word(h.dest)) THEN error("ValueError")
        ELSE IF h.detector # 0 /\ h.detector # OneBased(phdets_key_index[key])
             THEN error("AssertionError")
        ELSE [raised |-> "none",
              photonkey |-> MapKey(XrayTransition(h.z, h.src, h.dest), h.detector),
              datum |-> Datum(content.body)]

RECURSIVE ReadMaps(_, _, _, _, _)
\* The loop over the files glob.glob found, in the order it gave them.
ReadMaps(acc, dir, filepaths, key, phdets_key_index) ==
    IF filepaths = <<>> THEN acc
    ELSE LET filepath == Head(filepaths)
             r == ReadMap(ContentOf(dir, filepath), key, phdets_key_index)
             reads == Append(acc.reads, filepath)
         IN  IF r.raised # "none" THEN Raised(r.raised, NoPath, reads)
             ELSE ReadMaps(Returned([type |-> "PhotonDepthResult",
                                     distributions |-> Put(acc.result.distributions,
                                                           r.photonkey, r.datum)],
                                    reads),
                           dir, Tail(filepaths), key, phdets_key_index)

\* glob.glob(os.path.join(path, 'pe-map-*-depth.dat')): the files found.
Glob(dir) == {f.path : f \in {g \in dir : g.path.stem = MapStem}}

\* _import_photon_depth, the glob having listed the map files in this order.
_import_photon_depth(dir, filepaths, key, phdets_key_index) ==
    ReadMaps(Returned([type |-> "PhotonDepthResult", distributions |-> <<>>], <<>>),
             dir, filepaths, key, phdets_key_index)

\* ------------------------------------------------------- Importer.__init__
\* self._importers: the detector classes with a routine.
_importers == [k \in DelimitedKinds \cup EnergyKinds \cup LogKinds |-> k]

\* The call of the routine registered for a detector class.
Importer(kind, dir, filepaths, key, phdets_key_index) ==
    CASE kind = "PhotonSpectrumDetector" -> _import_photon_spectrum(dir, key, phdets_key_index)
      [] kind = "PhotonIntensityDetector" -> _import_photon_intensity(dir, key, phdets_key_index)
      [] kind = "PhotonDepthDetector" ->
            _import_photon_depth(dir, filepaths, key, phdets_key_index)
      [] kind = "ElectronFractionDetector" -> _import_electron_fraction(dir)
      [] kind = "TimeDetector" -> _import_time(dir)
      [] kind = "ShowersStatisticsDetector" -> _import_showers_statistics(dir)
      [] kind = "BackscatteredElectronEnergyDetector" ->
            _import_backscattered_electron_energy(dir)
      [] kind = "TransmittedElectronEnergyDetector" ->
            _import_transmitted_electron_energy(dir)

\* The orders glob.glob may list the map files in: by name, or the reverse.
GlobOrders(dir) ==
    LET names == Ascending({p.nn[1] : p \in Glob(dir)})
        n == Len(names)
    IN  {[i \in 1..n |-> MapPath(names[i])], [i \in 1..n |-> MapPath(names[n + 1 - i])]}

\* -------------------------------------------- the simulator's output files
\* A table of the simulator: a comment and two rows, the values telling the
\* files apart.
StdTable(n) ==
    << CommentLine, Row(<<Num(10), Num(5 + n), Num(1)>>), Row(<<Num(30), Num(7 + n), Num(2)>>) >>

\* The lines the table files are varied with.
TableLines ==
    { CommentLine, BlankLine,
      Row(<<Num(10), Num(5), Num(1)>>), Row(<<Num(30), Num(0), Num(2)>>),
      Row(<<Num(20), Num(6), Num(3), Num(99)>>),
      Row(<<Num(40), Num(8)>>), Row(<<Num(50), Word("NaN*"), Num(4)>>) }

TableVariants == SeqsUpTo(TableLines, MaxRows)

\* A row of an intensity table: IZ, S0, S1, the energy and ten numbers.
IntensityRow(z, s0, s1, base) ==
    Row(<<z, s0, s1, Num(8000)>> \o [i \in 1..10 |-> Num(base + i)])

StdIntensities(n) ==
    << CommentLine, IntensityRow(Num(74), Word("M5"), Word("N7"), 100 * n),
       IntensityRow(Num(29), Word("K"), Word("L3"), 100 * n + 50) >>

IntensityLines ==
    { CommentLine, BlankLine,
      IntensityRow(Num(74), Word("M5"), Word("N7"), 500),
      IntensityRow(Num(74), Word("M5"), Word("N7"), 600),
      IntensityRow(Num(29), Word("L3"), Word("M5"), 700),
      IntensityRow(Word("IZ"), Word("S0"), Word("S1"), 0),
      IntensityRow(Num(74), Word("M5"), Word("O9"), 800),
      Row(SubSeq(IntensityRow(Num(29), Word("K"), Word("L2"), 900).fields, 1, 12)),
      Row([IntensityRow(Num(29), Word("K"), Word("L2"), 900).fields EXCEPT ![7] = Word("***")]) }

IntensityVariants == SeqsUpTo(IntensityLines, MaxRows)

StdLog ==
    << LogText,
       LogEntry("Simulation time", Num(90), Word("")),
       LogEntry("Simulation speed", Num(855), Word("")),
       LogEntry("Simulated primary showers", Num(76938), Word("")),
       LogText,
       LogEntry("Upbound fraction", Num(517), Num(7)),
       LogEntry("Downbound fraction", Num(0), Num(0)),
       LogEntry("Absorption fraction", Num(511), Num(5)) >>

LogLines ==
    { LogText,
      LogEntry("Upbound fraction", Num(600), Word("")),
      LogEntry("Absorption fraction", Num(400), Num(9)),
      LogEntry("Simulation speed", Num(0), Word("")),
      LogEntry("Simulation time", Num(45), Num(2)),
      LogEntry("Simulated primary showers", Word("****"), Word("")),
      LogEntry("Downbound fraction", Num(3), Word("?")) }

\* The log with up to MaxRows further lines before or after it, and the log
\* without one of its lines.
LogVariants ==
    {StdLog \o s : s \in SeqsUpTo(LogLines, MaxRows)}
    \cup {s \o StdLog : s \in SeqsUpTo(LogLines, MaxRows)}
    \cup {SubSeq(StdLog, 1, i - 1) \o SubSeq(StdLog, i + 1, Len(StdLog)) : i \in 1..Len(StdLog)}

StdBody(n) == << <<-300, 100 * n, 1000>>, <<-100, 200 * n, 50>>, <<0, 0, 0>> >>

\* The map the simulator writes for an XRLINE line.
MapOf(xrline) ==
    LET code == xrline.args[1]
    IN  MapContent(MapHeader("match", code \div 1000000,
                             IupacOrder[(code \div 10000) % 100],
                             IupacOrder[(code \div 100) % 100],
                             xrline.args[2]),
                   StdBody(xrline.args[2] + 1))

\* The maps the directories are varied with.
MapContents ==
    { MapContent(MapHeader("match", 29, "L3", "M5", 0), StdBody(1)),
      MapContent(MapHeader("match", 29, "K", "L3", 0), StdBody(2)),
      MapContent(MapHeader("match", 29, "L3", "M5", 1), StdBody(3)),
      MapContent(MapHeader("match", 29, "L3", "M5", 2), StdBody(4)),
      MapContent(MapHeader("match", 74, "M5", "N7", 0), <<>>),
      MapContent(MapHeader("match", 74, "M5", "O9", 0), StdBody(1)),
      MapContent(MapHeader("nomatch", 0, "", "", 0), StdBody(1)),
      MapContent(MapHeader("short", 0, "", "", 0), <<>>) }

\* Up to MaxMaps maps, no two for the same line and detector.
MapVariants ==
    {c \in SeqsUpTo(MapContents, MaxMaps) :
        \A i, j \in 1..Len(c) :
            (i # j /\ c[i].header.shape = "match") => c[i].header # c[j].header}

MapFiles(contents) == {File(MapPath(i), contents[i]) : i \in 1..Len(contents)}

\* Everything the simulator leaves for n detector blocks and the XRLINE
\* lines of the .in file.
Complete(n, xrlines) ==
    {File(IndexedPath("pe-spect", i), StdTable(i)) : i \in 1..n}
    \cup {File(IndexedPath("pe-intens", i), StdIntensities(i)) : i \in 1..n}
    \cup {File(GeneratedPath, StdIntensities(0)),
          File(FixedPath("pe-energy-el-up"), StdTable(40)),
          File(FixedPath("pe-energy-el-down"), StdTable(50)),
          File(LogPath, StdLog)}
    \cup MapFiles([i \in 1..Len(xrlines) |-> MapOf(xrlines[i])])

\* The directory with the content of one file replaced (or the file added).
With(dir, path, content) == {f \in dir : f.path # path} \cup {File(path, content)}

WithMaps(dir, contents) == {f \in dir : f.path.stem # MapStem} \cup MapFiles(contents)

\* The complete directory with one file missing or with one kind of file
\* varied, and the empty directory.
Directories(n, xrlines) ==
    LET all == Complete(n, xrlines)
    IN  {{}, all}
        \cup {all \ {f} : f \in all}
        \cup {With(all, IndexedPath("pe-spect", 1), c) : c \in TableVariants}
        \cup {With(all, FixedPath("pe-energy-el-up"), c) : c \in TableVariants}
        \cup {With(all, GeneratedPath, c) : c \in IntensityVariants}
        \cup {With(all, IndexedPath("pe-intens", 1), c) : c \in IntensityVariants}
        \cup {With(all, LogPath, c) : c \in LogVariants}
        \cup {WithMaps(all, c) : c \in MapVariants}

\* The directories the simulator may leave for a written .in file.
OutputDirectories(options, lines) ==
    LET n == Len(LinesOf(lines, {"PDANGL"}))
        xrlines == LinesOf(lines, {"XRLINE"})
    IN  IF options.detectors \in ImportMappings
        THEN Directories(n, xrlines)
        ELSE {{}, Complete(n, xrlines)}

VARIABLES
    input,      \* the arguments of the call: options, geoinfo, matinfos
    settings,   \* the process-wide settings
    pc,         \* the step the call is at
    lines,      \* the lines created so far
    phdets,     \* the exporter's phdets_key_index and phdets_index_keys
    warnings,   \* the warnings recorded
    lookups,    \* the materials whose MaterialInfo was constructed
    raised,     \* the exception that ended the export ("none": none)
    file,       \* the .in file
    outdir,     \* the files of the output directory
    imported,   \* the importer's phdets_key_index and phdets_index_keys
    results,    \* the results stored so far, by detector key
    calls,      \* the routines called so far and what each handed back
    ikey        \* the detector key the importer's loop is at

vars ==
    <<input, settings, pc, lines, phdets, warnings, lookups, raised, file, outdir, imported,
      results, calls, ikey>>

Init ==
    /\ input \in Inputs
    /\ settings \in SettingsOf(input)
    /\ pc = "start"
    /\ lines = <<>>
    /\ phdets = NoIndex
    /\ warnings = <<>>
    /\ lookups = <<>>
    /\ raised = "none"
    /\ file = NoFile
    /\ outdir = {}
    /\ imported = NoIndex
    /\ results = <<>>
    /\ calls = <<>>
    /\ ikey = 1

\* A section has run: its lines, warnings and lookups are kept, and the
\* call goes on to the next step unless the section raised.
Ran(step, r) ==
    /\ lines' = r.lines
    /\ warnings' = warnings \o r.warnings
    /\ lookups' = lookups \o r.lookups
    /\ raised' = r.raised
    /\ pc' = IF r.raised = "none" THEN After(step) ELSE "raised"
    /\ UNCHANGED <<settings, phdets, file, outdir, imported, results, calls, ikey>>

Appended(step, newlines) ==
    /\ Ran(step, Result(newlines, <<>>, <<>>, "none"))
    /\ UNCHANGED input

\* The caller's geometry after the interaction-forcing section.
InputAfterForcing ==
    [input EXCEPT !.geoinfo.bodies = BodiesAfterSorted(@)]

\* The caller's options after the spatial-distribution section: the list of
\* a single photon-depth detector with transitions of its own has been
\* copied and the copy sorted.
InputAfterSpatial ==
    LET keys == IterClass(input.options.detectors, {"PhotonDepthDetector"})
    IN  IF Len(keys) = 1 /\ input.options.detectors[keys[1]].transitions # <<>>
        THEN [input EXCEPT !.options.detectors[keys[1]].transitions = OwnListAfterSort(@)]
        ELSE input

\* _create_input_file, up to the first section: the detector indexes.
CreateInputFile ==
    /\ pc = "start"
    /\ phdets' = index_delimited_detectors(input.options.detectors, ExporterDets(input.options))
    /\ pc' = SectionOrder[1]
    /\ UNCHANGED <<input, settings, lines, warnings, lookups, raised, file, outdir, imported,
                   results, calls, ikey>>

AppendTitle ==
    /\ pc = "title"
    /\ Appended("title", _append_title(lines, input.options))

AppendElectronBeam ==
    /\ pc = "electron_beam"
    /\ Appended("electron_beam", _append_electron_beam(lines, input.options))

AppendMaterialData ==
    /\ pc = "material_data"
    /\ Appended("material_data", _append_material_data(lines, input.matinfos))

AppendGeometry ==
    /\ pc = "geometry"
    /\ Appended("geometry", _append_geometry(lines, input.geoinfo))

AppendInteractionForcing ==
    /\ pc = "interaction_forcing"
    /\ Ran("interaction_forcing",
           _append_interaction_forcing(lines, input.options, input.geoinfo, input.matinfos))
    /\ input' = InputAfterForcing

AppendEmergingParticlesDistribution ==
    /\ pc = "emerging_particles_distribution"
    /\ Appended("emerging_particles_distribution",
                _append_emerging_particles_distribution(lines, input.options))

AppendPhotonDetectors ==
    /\ pc = "photon_detectors"
    /\ Ran("photon_detectors", _append_photon_detectors(lines, input.options, phdets.index_keys))
    /\ UNCHANGED input

AppendSpatialDistribution ==
    /\ pc = "spatial_distribution"
    /\ Ran("spatial_distribution",
           _append_spatial_distribution(lines, input.options, input.geoinfo,
                                        input.discovered, phdets.key_index))
    /\ input' = InputAfterSpatial

AppendJobProperties ==
    /\ pc = "job_properties"
    /\ Ran("job_properties",
           _append_job_properties(lines, input.options, Dumpp(SettingsRead(settings)),
                                  phdets.key_index))
    /\ UNCHANGED input

AppendEnd ==
    /\ pc = "end"
    /\ Appended("end", Append(lines, Keyword("END", <<>>)))

\* The .in file is opened and every line written to it.
WriteFile ==
    /\ pc = "write"
    /\ file' = [exists |-> TRUE, lines |-> lines]
    /\ pc' = After("write")
    /\ UNCHANGED <<input, settings, lines, phdets, warnings, lookups, raised, outdir, imported,
                   results, calls, ikey>>

\* The simulator runs on the .in file and leaves some of its output files.
Simulate ==
    /\ pc = "done"
    /\ outdir' \in OutputDirectories(input.options, file.lines)
    /\ pc' = "simulated"
    /\ UNCHANGED <<input, settings, lines, phdets, warnings, lookups, raised, file, imported,
                   results, calls, ikey>>

\* Importer._import, up to _run_importers: the detector indexes.
Import ==
    /\ pc = "simulated"
    /\ imported' = index_delimited_detectors(input.options.detectors, ImporterDets(input.options))
    /\ pc' = "importing"
    /\ UNCHANGED <<input, settings, lines, phdets, warnings, lookups, raised, file, outdir,
                   results, calls, ikey>>

\* What the routine of the detector the loop is at hands back, the glob
\* having listed the map files in the given order.
RoutineOutcome(filepaths) ==
    Importer(_importers[input.options.detectors[ikey].kind], outdir, filepaths, ikey,
             imported.key_index)

InLoop == pc = "importing" /\ ikey <= Len(input.options.detectors)

\* Mutant: the routine is called a second time for the same detector.
Called_Twice(out) == calls' = calls \o <<[key |-> ikey, out |-> out], [key |-> ikey, out |-> out]>>

\* The call of a routine, recorded with the key it was made for.
Called(out) == calls' = Append(calls, [key |-> ikey, out |-> out])

\* _run_importers: the routine of the next detector returns its result, which
\* is stored under the detector's key; a detector whose class has no routine
\* is passed over.
RunImporter ==
    /\ InLoop
    /\ IF input.options.detectors[ikey].kind \notin DOMAIN _importers
       THEN UNCHANGED <<results, calls>>
       ELSE \E filepaths \in GlobOrders(outdir) :
               LET out == RoutineOutcome(filepaths)
               IN  /\ out.raised = "none"
                   /\ results' = Put(results, ikey, out.result)
                   /\ Called(out)
    /\ ikey' = ikey + 1
    /\ UNCHANGED <<input, settings, pc, lines, phdets, warnings, lookups, raised, file, outdir,
                   imported>>

\* The routine of the next detector raises and the exception leaves _import.
ImporterRaises ==
    /\ InLoop
    /\ input.options.detectors[ikey].kind \in DOMAIN _importers
    /\ \E filepaths \in GlobOrders(outdir) :
          LET out == RoutineOutcome(filepaths)
          IN  /\ out.raised # "none"
              /\ Called(out)
    /\ pc' = "import_raised"
    /\ UNCHANGED <<input, settings, lines, phdets, warnings, lookups, raised, file, outdir,
                   imported, results, ikey>>

\* The routine of the next detector raises and the loop goes on to the other
\* detectors.
ImporterRaisesLoopGoesOn ==
    /\ InLoop
    /\ input.options.detectors[ikey].kind \in DOMAIN _importers
    /\ \E filepaths \in GlobOrders(outdir) :
          LET out == RoutineOutcome(filepaths)
          IN  /\ out.raised # "none"
              /\ Called(out)
    /\ ikey' = ikey + 1
    /\ UNCHANGED <<input, settings, pc, lines, phdets, warnings, lookups, raised, file, outdir,
                   imported, results>>

\* _run_importers has been through every detector: the results are returned.
ReturnResults ==
    /\ pc = "importing"
    /\ ikey > Len(input.options.detectors)
    /\ pc' = "imported"
    /\ UNCHANGED <<input, settings, lines, phdets, warnings, lookups, raised, file, outdir,
                   imported, results, calls, ikey>>

Next ==
    \/ CreateInputFile
    \/ AppendTitle
    \/ AppendElectronBeam
    \/ AppendMaterialData
    \/ AppendGeometry
    \/ AppendInteractionForcing
    \/ AppendEmergingParticlesDistribution
    \/ AppendPhotonDetectors
    \/ AppendSpatialDistribution
    \/ AppendJobProperties
    \/ AppendEnd
    \/ WriteFile
    \/ Simulate
    \/ Import
    \/ RunImporter
    \/ ImporterRaises
    \/ ImporterRaisesLoopGoesOn
    \/ ReturnResults

Spec == Init /\ [][Next]_vars

\* --------------------------------------------- the transition codes alone
\* The exports of the inputs with limits or with transitions of a depth
\* detector, and the inputs whose transitions are only to be encoded.
InitCodes ==
    /\ \/ input \in InputsLimits \cup InputsTransitions /\ pc = "start"
       \/ input \in InputsCodes /\ pc = "code"
    /\ settings \in {[pendbase |-> "pendbase", dumpp |-> 30]}
    /\ lines = <<>>
    /\ phdets = NoIndex
    /\ warnings = <<>>
    /\ lookups = <<>>
    /\ raised = "none"
    /\ file = NoFile
    /\ outdir = {}
    /\ imported = NoIndex
    /\ results = <<>>
    /\ calls = <<>>
    /\ ikey = 1

\* The XRLINE lines of every transition of the depth detector, none left
\* out, and the REFLIN line of the uncertainty limit.
EncodeTransitions ==
    /\ pc = "code"
    /\ LET key_index == index_delimited_detectors(input.options.detectors,
                                                  ExporterDets(input.options)).key_index
       IN  lines' = XRLines(input.options.detectors[1].transitions, key_index[1] + 1)
                    \o LinesOf(_append_job_properties(<<>>, input.options, Dumpp(settings),
                                                      key_index).lines, {"REFLIN"})
    /\ pc' = "coded"
    /\ UNCHANGED <<input, settings, phdets, warnings, lookups, raised, file, outdir, imported,
                   results, calls, ikey>>

NextCodes ==
    \/ CreateInputFile
    \/ AppendTitle
    \/ AppendElectronBeam
    \/ AppendMaterialData
    \/ AppendGeometry
    \/ AppendInteractionForcing
    \/ AppendEmergingParticlesDistribution
    \/ AppendPhotonDetectors
    \/ AppendSpatialDistribution
    \/ AppendJobProperties
    \/ AppendEnd
    \/ WriteFile
    \/ EncodeTransitions

SpecCodes == InitCodes /\ [][NextCodes]_vars

\* =============================================================== claims
\* ------------------------------------------------ what the claims read
SectionHeaders ==
    << "TITLE", "C_ELECTROBEAM", "C_MATERIALDATA", "C_GEOMETRY", "C_INTERACTION",
       "C_EMERGINGDIST", "C_DETECTORS", "C_SPATIALDIST", "C_JOBPROP", "END" >>

\* The header of the section that was being created when the lines ended.
LastHeader ==
    LET hs == LinesOf(lines, Range(SectionHeaders))
    IN  IF hs = <<>> THEN "none" ELSE hs[Len(hs)].kw

\* The section with this header has run to its end without raising.
Completed(header) ==
    /\ \E i \in 1..Len(lines) : lines[i].kw = header
    /\ ~(pc = "raised" /\ LastHeader = header)

\* The export has ended, with the file written or with an exception.
Ended == pc \in {"done", "simulated", "importing", "raised"}

DelimitedKeys == {k \in 1..Len(input.options.detectors) : IsDelimited(input.options.detectors[k])}

DistinctWindows == {Window(input.options.detectors[k]) : k \in DelimitedKeys}

\* The 'Detector N used by ...' comments, in file order.
BlockComments == LinesOf(lines, {"C_DETECTOR"})

\* The keys a block comment lists.
UsedBy(comment) == Range(Tail(comment.args))

\* C1: the index the importer computes for each delimited detector key from the
\* options equals the index the exporter computed for it (the ordinal of the
\* key's 'Detector N' block less one), whatever the output directory holds:
\* both maps, key -> index and index -> keys, are the same in the two passes.
C1_ImporterIndexIsExporterIndex ==
    pc = "importing" =>
        /\ DOMAIN imported.key_index = DelimitedKeys
        /\ imported.key_index = phdets.key_index
        /\ imported.index_keys = phdets.index_keys
        /\ \A k \in DelimitedKeys :
              \E i \in 1..Len(file.lines) :
                  /\ file.lines[i].kw = "C_DETECTOR"
                  /\ file.lines[i].args[1] = imported.key_index[k] + 1
                  /\ k \in UsedBy(file.lines[i])

\* The import has indexed several windows, one shared by two detectors, a
\* photon-depth detector among them, from a populated output directory.
C1_Witness ==
    /\ pc = "importing"
    /\ outdir # {}
    /\ Cardinality(DOMAIN imported.index_keys) >= 2
    /\ \E i \in DOMAIN imported.index_keys : Len(imported.index_keys[i]) >= 2
    /\ \E k \in DelimitedKeys : input.options.detectors[k].kind = "PhotonSpectrumDetector"

\* C2: detectors with the same window share an index, detectors with different
\* windows do not, the indexes are exactly 0..N-1 for N distinct windows, and
\* the detector blocks written are numbered 1..N in ascending order with every
\* delimited key listed by exactly one block, the block of its window.
C2_IndexesPartitionByWindow ==
    /\ pc # "start" =>
          /\ DOMAIN phdets.key_index = DelimitedKeys
          /\ \A k1, k2 \in DelimitedKeys :
                (Window(input.options.detectors[k1]) = Window(input.options.detectors[k2]))
                    <=> (phdets.key_index[k1] = phdets.key_index[k2])
          /\ {phdets.key_index[k] : k \in DelimitedKeys} = 0..(Cardinality(DistinctWindows) - 1)
    /\ Completed("C_DETECTORS") =>
          LET blocks == BlockComments
          IN  /\ Len(blocks) = Cardinality(DistinctWindows)
              /\ \A i \in 1..Len(blocks) : blocks[i].args[1] = i
              /\ \A k \in DelimitedKeys :
                    /\ Cardinality({i \in 1..Len(blocks) : k \in UsedBy(blocks[i])}) = 1
                    /\ k \in UsedBy(blocks[phdets.key_index[k] + 1])
              /\ \A i \in 1..Len(blocks) :
                    /\ UsedBy(blocks[i]) \subseteq DelimitedKeys
                    /\ Len(blocks[i].args) = 1 + Cardinality(UsedBy(blocks[i]))

\* The detector blocks are written for two windows, one of them shared by
\* two detectors.
C2_Witness ==
    /\ Completed("C_DETECTORS")
    /\ LET blocks == BlockComments
       IN  /\ Len(blocks) >= 2
           /\ \E i \in 1..Len(blocks) : Cardinality(UsedBy(blocks[i])) >= 2

\* The section a line belongs to by its keyword (0: a skip marker, which
\* belongs to the section it closes).
SectionOf(kw) ==
    CASE kw = "TITLE" -> 1
      [] kw \in {"C_ELECTROBEAM", "SENERG", "SPOSIT", "SDIREC", "SAPERT", "SDIAM"} -> 2
      [] kw \in {"C_MATERIALDATA", "MFNAME", "MSIMPA"} -> 3
      [] kw \in {"C_GEOMETRY", "GEOMFN", "DSMAX"} -> 4
      [] kw \in {"C_INTERACTION", "IFORCE"} -> 5
      [] kw \in {"C_EMERGINGDIST", "NBE", "NBANGL"} -> 6
      [] kw \in {"C_DETECTORS", "C_DETECTOR", "PDANGL", "PDENER", "XRORIG"} -> 7
      [] kw \in {"C_SPATIALDIST", "GRIDX", "GRIDY", "GRIDZ", "XRAYE", "XRLINE"} -> 8
      [] kw \in {"C_JOBPROP", "RESUME", "DUMPTO", "DUMPP", "RSEED", "REFLIN", "NSIMSH", "TIME"} -> 9
      [] kw = "END" -> 10
      [] kw = "SKIP" -> 0

\* C3: in the file of a successful export the sections follow one another in
\* the order Title, ElectronBeam, MaterialData, Geometry, InteractionForcing,
\* EmergingParticleDistribution, PhotonDetectors, SpatialDistribution,
\* JobProperties: each section header occurs once, no line of a later
\* section precedes a line of an earlier one, and END is the last line.
C3_SectionsInOrder ==
    file.exists =>
        LET ls == file.lines
            marked == SelectSeq(ls, LAMBDA l : l.kw # "SKIP")
            headers == LinesOf(ls, Range(SectionHeaders))
        IN  /\ ls # <<>>
            /\ ls[1].kw = "TITLE"
            /\ ls[Len(ls)].kw = "END"
            /\ \A i \in 1..(Len(marked) - 1) :
                  SectionOf(marked[i].kw) <= SectionOf(marked[i + 1].kw)
            /\ [i \in 1..Len(headers) |-> headers[i].kw] = SectionHeaders

\* A file is written that has interaction-forcing, energy-distribution,
\* detector and spatial-distribution lines.
C3_Witness ==
    /\ file.exists
    /\ \A kw \in {"IFORCE", "NBE", "PDANGL", "XRLINE", "NSIMSH"} :
          \E i \in 1..Len(file.lines) : file.lines[i].kw = kw

\* The (body, rule) pairs of the bodies that are not vacuum, bodies in index
\* order and the rules of a body in their own order.
ForcingPairs ==
    LET bodies == SortedBodies(input.geoinfo.bodies)
    IN  Flatten([i \in 1..Len(bodies) |->
            IF bodies[i].material = "VACUUM" THEN <<>>
            ELSE LET rules == input.geoinfo.materials[bodies[i].material].interaction_forcings
                 IN  [j \in 1..Len(rules) |-> [body |-> bodies[i], rule |-> rules[j]]]])

\* Whether the section with this header has nothing to emit.
NothingToEmit(header) ==
    CASE header = "C_INTERACTION" -> ForcingPairs = <<>>
      [] header = "C_EMERGINGDIST" ->
            ~\E k \in 1..Len(input.options.detectors) : input.options.detectors[k].kind \in EnergyKinds
      [] header = "C_DETECTORS" -> DelimitedKeys = {}
      [] header = "C_SPATIALDIST" ->
            ~\E k \in 1..Len(input.options.detectors) :
                input.options.detectors[k].kind = "PhotonDepthDetector"
      [] OTHER -> FALSE

\* C4: every section that has nothing to emit (interaction forcing, emerging
\* particles, photon detectors, spatial distribution) consists of its header
\* followed by a skip marker, and in the file written every section header
\* after the title, and END, comes right after a skip marker.
C4_EmptySectionsEmitSkip ==
    /\ \A i \in 1..Len(lines) :
          (Completed(lines[i].kw) /\ NothingToEmit(lines[i].kw))
              => (i < Len(lines) /\ lines[i + 1].kw = "SKIP")
    /\ file.exists =>
          \A i \in 2..Len(file.lines) :
              file.lines[i].kw \in Range(SectionHeaders) => file.lines[i - 1].kw = "SKIP"

\* C5 as stated: with more than 25 distinct windows the export ends with the
\* format-limit error and no file; with exactly 25 it succeeds and writes 25
\* detector blocks.
C5_Original ==
    /\ Cardinality(DistinctWindows) > 25 =>
          /\ ~file.exists
          /\ Ended => raised = "ExporterException"
    /\ (Cardinality(DistinctWindows) = 25 /\ Ended) =>
          /\ raised = "none"
          /\ file.exists
          /\ Len(LinesOf(file.lines, {"C_DETECTOR"})) = 25

\* C5, amended: with more than 25 distinct windows no file is ever written,
\* the export ends with an exception, and the photon detectors section,
\* whenever it is reached, raises the format-limit error without writing a
\* detector block; with exactly 25 the photon detectors section raises
\* nothing and writes 25 detector blocks, and an export that no other
\* section ends writes them to the file.
C5_DetectorLimit ==
    LET n == Cardinality(DistinctWindows)
        reached == \E i \in 1..Len(lines) : lines[i].kw = "C_DETECTORS"
    IN  /\ n > 25 =>
              /\ ~file.exists
              /\ Ended => pc = "raised"
              /\ reached =>
                    /\ pc = "raised"
                    /\ raised = "ExporterException"
                    /\ lines[Len(lines)].kw = "C_DETECTORS"
        /\ n = 25 =>
              /\ reached =>
                    /\ Completed("C_DETECTORS")
                    /\ Len(BlockComments) = 25
              /\ file.exists => Len(LinesOf(file.lines, {"C_DETECTOR"})) = 25
              /\ (Ended /\ raised = "none") => file.exists

\* The photon detectors section has refused 26 distinct windows.
C5_Witness ==
    /\ Cardinality(DistinctWindows) = 26
    /\ pc = "raised"
    /\ raised = "ExporterException"
    /\ LastHeader = "C_DETECTORS"

\* The channel count the block listing these keys asks for: that of the
\* first spectrum detector among them, or the 1000 of the stand-in.
Requested(keys) ==
    LET spectrum == SelectSeq(keys,
                        LAMBDA k : input.options.detectors[k].kind = "PhotonSpectrumDetector")
    IN  IF spectrum = <<>> THEN 1000 ELSE input.options.detectors[spectrum[1]].channels

ChannelWarnings(index) ==
    SelectSeq(warnings, LAMBDA w : w.what = "channels" /\ w.index = index)

\* C6: the channel count on the PDENER line of every detector block is the
\* smaller of the requested count and 1000; a block asking for more than 1000
\* draws exactly one ExporterWarning, any other block (the stand-in with its
\* 1000 channels among them) draws none, and the section raises nothing on
\* account of the channels.
C6_ChannelsClamped ==
    /\ (Cardinality(DistinctWindows) <= 25 /\ \E i \in 1..Len(lines) : lines[i].kw = "C_DETECTORS")
          => Completed("C_DETECTORS")
    /\ Completed("C_DETECTORS") =>
          /\ \A p \in 1..Len(lines) :
                lines[p].kw = "C_DETECTOR" =>
                    LET requested == Requested(Tail(lines[p].args))
                    IN  /\ p + 2 <= Len(lines)
                        /\ lines[p + 2].kw = "PDENER"
                        /\ lines[p + 2].args[3] = Min2(requested, 1000)
                        /\ Len(ChannelWarnings(lines[p].args[1])) = IF requested > 1000 THEN 1 ELSE 0
          /\ \A i \in 1..Len(warnings) : warnings[i].category = "ExporterWarning"

\* Blocks are written for a spectrum detector asking for 1500 channels and
\* for a window that no spectrum detector uses.
C6_Witness ==
    /\ Completed("C_DETECTORS")
    /\ \E p, q \in 1..Len(lines) :
          /\ lines[p].kw = "C_DETECTOR" /\ Requested(Tail(lines[p].args)) = 1500
          /\ lines[p + 2].args[3] = 1000
          /\ lines[q].kw = "C_DETECTOR"
          /\ \A k \in UsedBy(lines[q]) :
                input.options.detectors[k].kind # "PhotonSpectrumDetector"

IForceLines == LinesOf(lines, {"IFORCE"})

\* C7: the forcer on the IFORCE line of a rule is abs(forcer) * mean free
\* path / range of the body's material at the beam energy when the rule's
\* forcer is negative (-2 with mean free path 4 and range 2 gives 4), and the
\* rule's forcer itself when it is zero or positive; the material-property
\* lookup is made once per negative rule and never for another rule.
C7_ForcerWritten ==
    LET written == IForceLines
        pairs == ForcingPairs
        e0 == input.options.beam.energy_eV
        negatives == {j \in 1..Len(written) : pairs[j].rule.forcer < 0}
    IN  /\ Len(written) <= Len(pairs)
        /\ Completed("C_INTERACTION") => Len(written) = Len(pairs)
        /\ \A j \in 1..Len(written) :
              LET rule == pairs[j].rule
                  material == pairs[j].body.material
                  kpar == _PARTICLES_REF(rule.particle)
                  icol == _COLLISIONS_REF(rule.particle, rule.collision)
                  num == written[j].args[4]
                  den == written[j].args[5]
              IN  /\ den > 0
                  /\ IF rule.forcer < 0
                     THEN num * range_m(material, e0, kpar)
                            = den * Abs(rule.forcer) * meanfreepath_m(material, e0, kpar, icol)
                     ELSE num = rule.forcer /\ den = 1
                  /\ (rule.forcer = -2 /\ meanfreepath_m(material, e0, kpar, icol) = 4
                        /\ range_m(material, e0, kpar) = 2) => (num = 4 /\ den = 1)
        /\ Len(lookups) = Cardinality(negatives) + (IF raised = "IOError" THEN 1 ELSE 0)
        /\ \A i \in 1..Len(lookups) :
              \E j \in 1..Len(pairs) :
                  pairs[j].rule.forcer < 0 /\ pairs[j].body.material = lookups[i]

\* The section has written the line of a rule with forcer -2, corrected to
\* 4, and the line of a rule with a positive forcer, after one lookup.
C7_Witness ==
    /\ Completed("C_INTERACTION")
    /\ Len(lookups) = 1
    /\ \E i, j \in 1..Len(IForceLines) :
          /\ ForcingPairs[i].rule.forcer = -2
          /\ IForceLines[i].args[4] = 4 /\ IForceLines[i].args[5] = 1
          /\ ForcingPairs[j].rule.forcer = 3
          /\ IForceLines[j].args[4] = 3

\* The lookup of the material resolves: it has a pair and its file loads.
Resolvable(material) ==
    \E i \in 1..Len(input.matinfos) :
        input.matinfos[i].material = material /\ input.matinfos[i].loadable

NegativeUnresolvable ==
    \E j \in 1..Len(ForcingPairs) :
        ForcingPairs[j].rule.forcer < 0 /\ ~Resolvable(ForcingPairs[j].body.material)

\* C8: when a body's material has a rule with a negative forcer and the
\* lookup of that material does not resolve, the interaction forcing section
\* raises, the export ends with that exception and no file is written; and
\* no IFORCE line ever carries a negative forcer.
C8_UnresolvedMaterialFails ==
    /\ \A i \in 1..Len(lines) : lines[i].kw = "IFORCE" => lines[i].args[4] >= 0
    /\ NegativeUnresolvable =>
          /\ ~file.exists
          /\ ~Completed("C_INTERACTION")
          /\ (\E i \in 1..Len(lines) : lines[i].kw = "C_INTERACTION") =>
                /\ pc = "raised"
                /\ raised \in {"KeyError", "IOError"}
                /\ LastHeader = "C_INTERACTION"

\* The export has ended on a material without a pair, after the line of an
\* earlier rule.
C8_Witness ==
    /\ NegativeUnresolvable
    /\ pc = "raised"
    /\ raised = "KeyError"
    /\ Len(IForceLines) >= 1
    /\ ~file.exists

DepthKeys ==
    {k \in 1..Len(input.options.detectors) :
        input.options.detectors[k].kind = "PhotonDepthDetector"}

\* The candidate transitions of the photon-depth detector: its own list, or
\* the discovered one when it has none.
DepthCandidates ==
    LET detector == input.options.detectors[CHOOSE k \in DepthKeys : TRUE]
    IN  IF detector.transitions # <<>> THEN detector.transitions ELSE input.discovered

WarningsOf(what) == SelectSeq(warnings, LAMBDA w : w.what = what)

\* C9: with one photon-depth detector, more than 5 candidate transitions
\* draw one warning and the 5 of highest probability are kept, in descending
\* probability order; 5 or fewer are all kept without that warning; every
\* kept transition has its two XRLINE lines, and no export has more than 10.
C9_TransitionsRestrained ==
    /\ Len(LinesOf(lines, {"XRLINE"})) <= 10
    /\ (Cardinality(DepthKeys) = 1 /\ Completed("C_SPATIALDIST")) =>
          LET cand == DepthCandidates
              xr == LinesOf(lines, {"XRLINE"})
              kept == [i \in 1..(Len(xr) \div 2) |-> xr[2 * i - 1].args[1]]
              probability(code) ==
                  cand[CHOOSE j \in 1..Len(cand) : TransitionCode(cand[j]) = code].probability
          IN  /\ Len(xr) = 2 * Min2(5, Len(cand))
              /\ \A i \in 1..Len(kept) : xr[2 * i].args[1] = kept[i]
              /\ Range(kept) \subseteq {TransitionCode(cand[j]) : j \in 1..Len(cand)}
              /\ Cardinality(Range(kept)) = Len(kept)
              /\ \A i \in 1..(Len(kept) - 1) : probability(kept[i]) >= probability(kept[i + 1])
              /\ \A j \in 1..Len(cand) :
                    TransitionCode(cand[j]) \notin Range(kept) =>
                        \A i \in 1..Len(kept) : probability(kept[i]) >= cand[j].probability
              /\ Len(WarningsOf("too many transitions")) = IF Len(cand) > 5 THEN 1 ELSE 0

\* The section has cut a list of more than 5 candidates to 10 XRLINE lines.
C9_Witness ==
    /\ Cardinality(DepthKeys) = 1
    /\ Completed("C_SPATIALDIST")
    /\ Len(DepthCandidates) > 5
    /\ Len(LinesOf(lines, {"XRLINE"})) = 10
    /\ Len(WarningsOf("too many transitions")) = 1

\* The keywords of the spatial distribution section: from its header to the
\* line before the next header.
SpatialSection ==
    LET start == CHOOSE i \in 1..Len(lines) : lines[i].kw = "C_SPATIALDIST"
        stop == IF \E i \in 1..Len(lines) : lines[i].kw = "C_JOBPROP"
                THEN (CHOOSE i \in 1..Len(lines) : lines[i].kw = "C_JOBPROP") - 1
                ELSE Len(lines)
    IN  [i \in 1..(stop - start + 1) |-> lines[start + i - 1].kw]

NoCandidate ==
    /\ Cardinality(DepthKeys) = 1
    /\ Completed("C_SPATIALDIST")
    /\ DepthCandidates = <<>>

\* C10 as stated: with a photon-depth detector and no candidate transition,
\* a warning is recorded and the section is its header and the skip marker.
C10_Original ==
    NoCandidate =>
        /\ Len(WarningsOf("no transition")) = 1
        /\ SpatialSection = <<"C_SPATIALDIST", "SKIP">>

\* C10, amended: with a photon-depth detector and no candidate transition,
\* one warning is recorded and the section is its header, the GRIDX, GRIDY
\* and GRIDZ lines and the skip marker, with no XRLINE line; the warning is
\* recorded in no other case.
C10_EmptyCandidatesKeepGrid ==
    /\ NoCandidate =>
          /\ Len(WarningsOf("no transition")) = 1
          /\ SpatialSection = <<"C_SPATIALDIST", "GRIDX", "GRIDY", "GRIDZ", "SKIP">>
    /\ WarningsOf("no transition") # <<>> => NoCandidate

\* The section has run for a photon-depth detector without a candidate.
C10_Witness ==
    /\ NoCandidate
    /\ pc = "job_properties"

\* The one line with the keyword.
TheLine(kw) == LinesOf(lines, {kw})[1]

\* The energy detectors, in the order the section collects them.
EnergyDetectors ==
    LET keys == IterClass(input.options.detectors, {"BackscatteredElectronEnergyDetector"})
                \o IterClass(input.options.detectors, {"TransmittedElectronEnergyDetector"})
    IN  [i \in 1..Len(keys) |-> input.options.detectors[keys[i]]]

\* The depth (nm) the box must reach for the kept transitions: three times
\* the longest photon range, and at least 10 nm.
DepthNeeded ==
    LET kept == Restrain(SortByProbability(DepthCandidates))
        ranges == {3 * photon_range(input.options.beam.energy_eV, m, kept[i]) :
                       m \in GetMaterials(input.geoinfo), i \in 1..Len(kept)} \cup {10}
    IN  CHOOSE z \in ranges : \A y \in ranges : y <= z

KindOf(key) == input.options.detectors[key].kind

\* NN of a delimited detector: its block number in the .in file, in two
\* digits.
BlockNumber(key) ==
    LET n == phdets.key_index[key] + 1
    IN  <<n \div 10, n % 10>>

\* The files the routine of a detector needs before it reads anything.
NeededFiles(key) ==
    CASE KindOf(key) = "PhotonSpectrumDetector" ->
            {[stem |-> "pe-spect", nn |-> BlockNumber(key)]}
      [] KindOf(key) = "PhotonIntensityDetector" ->
            {[stem |-> "pe-intens", nn |-> BlockNumber(key)], [stem |-> "pe-gen-ph", nn |-> <<>>]}
      [] KindOf(key) = "BackscatteredElectronEnergyDetector" ->
            {[stem |-> "pe-energy-el-up", nn |-> <<>>]}
      [] KindOf(key) = "TransmittedElectronEnergyDetector" ->
            {[stem |-> "pe-energy-el-down", nn |-> <<>>]}
      [] KindOf(key) \in LogKinds -> {[stem |-> "penepma-res", nn |-> <<>>]}
      [] OTHER -> {}

PathsIn(dir) == {f.path : f \in dir}

\* C12: a routine whose file (pe-spect-NN.dat, pe-intens-NN.dat, pe-gen-ph.dat,
\* pe-energy-el-up.dat, pe-energy-el-down.dat, penepma-res.dat; NN the block
\* number in two digits) is absent raises ImporterException naming an absent
\* file it needs, returns no result and has opened no file; and it raises
\* ImporterException in no other case.
C12_MissingFileRaises ==
    \A i \in 1..Len(calls) :
        LET key == calls[i].key
            out == calls[i].out
            missing == NeededFiles(key) \ PathsIn(outdir)
        IN  KindOf(key) # "PhotonDepthDetector" =>
                /\ missing # {} =>
                      /\ out.raised = "ImporterException"
                      /\ out.path \in missing
                      /\ out.result = NoResult
                      /\ out.reads = <<>>
                /\ out.raised = "ImporterException" => missing # {}

\* An import has ended in which the intensity routine found its own table
\* and raised for the shared one.
C12_Witness ==
    /\ pc = "imported"
    /\ \E i \in 1..Len(calls) :
          /\ calls[i].out.raised = "ImporterException"
          /\ calls[i].out.path = [stem |-> "pe-gen-ph", nn |-> <<>>]
          /\ [stem |-> "pe-intens", nn |-> <<0, 1>>] \in PathsIn(outdir)

\* The header a map file has for an XRLINE line of the .in file.
RequestedMaps ==
    LET xr == LinesOf(file.lines, {"XRLINE"})
    IN  {MapOf(xr[i]).header : i \in 1..Len(xr)}

\* The headers of the map files of the output directory.
PresentMaps == {f.content.header : f \in {g \in outdir : g.path.stem = MapStem}}

\* C14: the routine of a photon-depth detector that finds no map file, or
\* not the map of every transition and absorption variant the export asked
\* for, raises ImporterException and returns no result.
C14_DepthImportAllOrNothing ==
    \A i \in 1..Len(calls) :
        (/\ KindOf(calls[i].key) = "PhotonDepthDetector"
         /\ (PresentMaps = {} \/ ~(RequestedMaps \subseteq PresentMaps)))
        => /\ calls[i].out.raised = "ImporterException"
           /\ calls[i].out.result = NoResult

\* The fields of the lines of a table that are neither comments nor blank.
DataFields(content) ==
    LET data == SelectSeq(content, LAMBDA l : l.kind \notin {"comment", "blank"})
    IN  [i \in 1..Len(data) |-> data[i].fields]

\* Every data line has three numbers in front.
ThreeColumnTable(content) ==
    \A i \in 1..Len(content) :
        content[i].kind \notin {"comment", "blank"} =>
            /\ Len(content[i].fields) >= 3
            /\ \A j \in 1..3 : content[i].fields[j].num

SpectrumFile(key) == [stem |-> "pe-spect", nn |-> BlockNumber(key)]

\* C15: a spectrum routine that returns has a total series with one row
\* (energy, value, uncertainty) per line of its file that is neither a
\* comment nor blank, in file order, and a background series of as many rows
\* with the same energies and zero value and uncertainty; and it returns for
\* every file that is there and is a table of three columns or more.
C15_SpectrumTotalAndBackground ==
    \A i \in 1..Len(calls) :
        LET key == calls[i].key
            out == calls[i].out
            rows == DataFields(ContentOf(outdir, SpectrumFile(key)))
        IN  (KindOf(key) = "PhotonSpectrumDetector" /\ SpectrumFile(key) \in PathsIn(outdir)) =>
                /\ ThreeColumnTable(ContentOf(outdir, SpectrumFile(key))) => out.raised = "none"
                /\ out.raised = "none" =>
                      /\ out.result.type = "PhotonSpectrumResult"
                      /\ Len(out.result.total) = Len(rows)
                      /\ Len(out.result.background) = Len(rows)
                      /\ \A r \in 1..Len(rows) :
                            /\ out.result.total[r] = <<rows[r][1].v, rows[r][2].v, rows[r][3].v>>
                            /\ out.result.background[r] = <<rows[r][1].v, 0, 0>>

\* A spectrum has been read from a file with a blank line and a row of four
\* fields whose value is not zero.
C15_Witness ==
    \E i \in 1..Len(calls) :
        /\ KindOf(calls[i].key) = "PhotonSpectrumDetector"
        /\ calls[i].out.raised = "none"
        /\ Len(calls[i].out.result.total) >= 1
        /\ calls[i].out.result.total[1][2] # 0
        /\ \E l \in Range(ContentOf(outdir, SpectrumFile(calls[i].key))) : l.kind = "blank"
        /\ \E l \in Range(ContentOf(outdir, SpectrumFile(calls[i].key))) : Len(l.fields) = 4

IntensityFile(key) == [stem |-> "pe-intens", nn |-> BlockNumber(key)]

\* A row that gives a transition and its eight numbers: an atomic number,
\* two subshell names, and numbers in the columns read.
IsIntensityRow(fields) ==
    /\ Len(fields) >= 14
    /\ fields[1].num
    /\ fields[2].w \in Range(IupacOrder)
    /\ fields[3].w \in Range(IupacOrder)
    /\ \A j \in {5, 6, 7, 8, 9, 10, 13, 14} : fields[j].num

\* The transitions of the rows of a table that can be parsed.
TransitionsIn(content) ==
    {[z |-> l.fields[1].v, src |-> l.fields[3].w, dst |-> l.fields[2].w] :
        l \in {m \in Range(content) : m.kind # "comment" /\ IsIntensityRow(m.fields)}}

\* The transitions a result has entries for, with or without absorption.
TransitionsOf(intensities, absorption) ==
    {k.transition : k \in {q \in DOMAIN intensities : q.absorption = absorption}}

\* C16: whatever rows the two intensity tables hold besides comments, the
\* routine raises nothing: a row that cannot be parsed (unknown element or
\* subshell, blank line, too few columns, a field that is no number) gives
\* no key, and the rows that can be parsed all give theirs.
C16_UnparsableRowsSkipped ==
    \A i \in 1..Len(calls) :
        LET key == calls[i].key
            out == calls[i].out
        IN  (/\ KindOf(key) = "PhotonIntensityDetector"
             /\ {IntensityFile(key), GeneratedPath} \subseteq PathsIn(outdir))
            => /\ out.raised = "none"
               /\ TransitionsOf(out.result.intensities, FALSE)
                    = TransitionsIn(ContentOf(outdir, GeneratedPath))
               /\ TransitionsOf(out.result.intensities, TRUE)
                    = TransitionsIn(ContentOf(outdir, IntensityFile(key)))

\* The fields of the last row of a table that can be parsed and names the
\* transition.
LastRowOf(content, transition) ==
    LET at == {j \in 1..Len(content) :
                  /\ content[j].kind # "comment"
                  /\ IsIntensityRow(content[j].fields)
                  /\ content[j].fields[1].v = transition.z
                  /\ content[j].fields[3].w = transition.src
                  /\ content[j].fields[2].w = transition.dst}
    IN  content[CHOOSE j \in at : \A k \in at : k <= j].fields

\* The four entries a row gives: kind and the two columns (counted from 0)
\* its pair is taken from.
EntryColumns == {<<"C", 6, 7>>, <<"B", 8, 9>>, <<"P", 4, 5>>, <<"T", 12, 13>>}

\* C17: the result of an intensity routine that returns holds, for every
\* transition of a parsable row of pe-gen-ph.dat, the four entries
\* (transition, no absorption, C/B/P/T), for every transition of a parsable
\* row of pe-intens-NN.dat the four entries (transition, absorption,
\* C/B/P/T), and no other entry; each entry is the pair of columns 6-7 (C),
\* 8-9 (B), 4-5 (P), 12-13 (T) of the last row of its table that names the
\* transition.
C17_IntensityEntries ==
    \A i \in 1..Len(calls) :
        LET key == calls[i].key
            out == calls[i].out
            table(absorption) ==
                ContentOf(outdir, IF absorption THEN IntensityFile(key) ELSE GeneratedPath)
        IN  (KindOf(key) = "PhotonIntensityDetector" /\ out.raised = "none") =>
                LET entries == out.result.intensities
                IN  /\ DOMAIN entries =
                          UNION {{[transition |-> tr, absorption |-> a, kind |-> k] :
                                     tr \in TransitionsIn(table(a)), k \in {"C", "B", "P", "T"}} :
                                 a \in BOOLEAN}
                    /\ \A q \in DOMAIN entries :
                          \E c \in EntryColumns :
                              /\ c[1] = q.kind
                              /\ LET row == LastRowOf(table(q.absorption), q.transition)
                                 IN  entries[q] = <<row[c[2] + 1].v, row[c[3] + 1].v>>

\* A result has been built from a generated table that names a transition on
\* two rows with different numbers, a transition the emitted table names too.
C17_Witness ==
    \E i \in 1..Len(calls) :
        /\ KindOf(calls[i].key) = "PhotonIntensityDetector"
        /\ calls[i].out.raised = "none"
        /\ LET gen == ContentOf(outdir, GeneratedPath)
               tr == [z |-> 74, src |-> "N7", dst |-> "M5"]
           IN  /\ Len(gen) = 2
               /\ gen[1] # gen[2]
               /\ TransitionsIn(gen) = {tr}
               /\ tr \in TransitionsIn(ContentOf(outdir, IntensityFile(calls[i].key)))

MapsOf(dir) == {f \in dir : f.path.stem = MapStem}

\* The key the claim gives the map with this header.
KeyOfMap(header) ==
    [transition |-> [z |-> header.z, src |-> header.src, dst |-> header.dest],
     absorption |-> header.detector # 0, kind |-> "T"]

\* The fraction <<n, d>> is 0.01 times the number x.
IsHundredth(fraction, x) == fraction[2] > 0 /\ 100 * fraction[1] = x * fraction[2]

EntryLines(content) == SelectSeq(content, LAMBDA l : l.shape = "entry")

\* The table the claim reads off a log: for a name, the value of its last
\* entry line and the uncertainty after '+-', or 0 without one.
LogTable(content, name) ==
    LET entries == EntryLines(content)
        at == {j \in 1..Len(entries) : entries[j].name = name}
        last == entries[CHOOSE j \in at : \A k \in at : k <= j]
    IN  <<last.val.v, IF last.unc = [num |-> FALSE, v |-> 0, w |-> ""] THEN 0 ELSE last.unc.v>>

LogNames(content) == {l.name : l \in Range(EntryLines(content))}

\* Every entry line carries a number, and a number after '+-' if anything.
NumericLog(content) ==
    \A l \in Range(EntryLines(content)) : l.val.num /\ (l.unc.num \/ l.unc.w = "")

NoneRaised == \A i \in 1..Len(calls) : calls[i].out.raised = "none"

CallsFor(key) == {i \in 1..Len(calls) : calls[i].key = key}

ExportSteps == Range(SectionOrder) \cup {"start"}

\* C21: no step of _create_input_file, whether it appends its lines or
\* raises, changes the options, the geometry info or the material-path table
\* the caller passed: their content and order after the step are those
\* before it.
C21_InputsLeftUnchanged ==
    [][(pc \in ExportSteps) => (input' = input)]_vars

\* An export has ended for a geometry whose bodies are not in index order and
\* a photon-depth detector whose own transitions are not in probability
\* order, the sorted bodies and the sorted transitions having been written.
C21_Witness ==
    /\ pc = "done"
    /\ SortedBodies(input.geoinfo.bodies) # input.geoinfo.bodies
    /\ \E k \in DOMAIN input.options.detectors :
          LET d == input.options.detectors[k]
          IN  /\ d.kind = "PhotonDepthDetector"
              /\ d.transitions # <<>>
              /\ SortByProbability(d.transitions) # d.transitions
    /\ LinesOf(file.lines, {"XRLINE"}) # <<>>

\* The lines of an export of the same three inputs in a process with the
\* given settings.
LinesUnder(penepma) == _create_input_file(input, penepma).lines

RulesOf(body) ==
    IF body.material = "VACUUM" THEN <<>>
    ELSE input.geoinfo.materials[body.material].interaction_forcings

\* The IFORCE lines whose first field is the given one, in file order.
IForceLinesOf(first) == SelectSeq(IForceLines, LAMBDA l : l.args[1] = first)

\* C23: once the InteractionForcing section is complete, each body that is
\* not vacuum has one IFORCE line per forcing rule of its material, in the
\* order of the rules and with the body's index plus one as first field;
\* the first fields never decrease from one IFORCE line to the next; there
\* is no other IFORCE line, and none for a vacuum body.
C23_OneLinePerBodyAndRule ==
    Completed("C_INTERACTION") =>
        LET written == IForceLines
            bodies == Range(input.geoinfo.bodies)
        IN  /\ \A b \in bodies :
                  LET mine == IForceLinesOf(b.index + 1)
                      rules == RulesOf(b)
                  IN  /\ Len(mine) = Len(rules)
                      /\ \A j \in 1..Len(rules) :
                            /\ mine[j].args[2] = _PARTICLES_REF(rules[j].particle)
                            /\ mine[j].args[3] = _COLLISIONS_REF(rules[j].particle, rules[j].collision)
                            /\ mine[j].args[6] = rules[j].weight[1]
                            /\ mine[j].args[7] = rules[j].weight[2]
            /\ \A i \in 1..Len(written) : \E b \in bodies : written[i].args[1] = b.index + 1
            /\ \A i \in 1..(Len(written) - 1) : written[i].args[1] <= written[i + 1].args[1]

\* A file has been written for a geometry whose body of index 0 has two
\* rules, whose body of index 2, returned before it, has one, and whose body
\* of index 1 is vacuum.
C23_Witness ==
    /\ file.exists
    /\ LET first == [i \in 1..Len(IForceLines) |-> IForceLines[i].args[1]]
       IN  first = <<1, 1, 3>>
    /\ input.geoinfo.bodies[1].index = 2
    /\ \E b \in Range(input.geoinfo.bodies) : b.material = "VACUUM" /\ b.index = 1

\* The packed integer of an atomic number and two subshell indices.
Packed(z, dest, src) == z * 1000000 + dest * 10000 + src * 100

\* The triple read back from a packed integer.
Unpacked(code) == <<code \div 1000000, (code \div 10000) % 100, (code \div 100) % 100>>

\* The transition the i-th coded line was written for: two XRLINE lines for
\* each transition of the detector, then the REFLIN line of the limit.
CodedFor(i) ==
    LET ts == input.options.detectors[1].transitions
    IN  IF i <= 2 * Len(ts) THEN ts[(i + 1) \div 2] ELSE input.options.limits[1].transition

\* C24: the code on an XRLINE or REFLIN line is Z*1000000 + dest*10000 +
\* src*100 of the transition it is written for, and for every atomic number
\* 1..99 and subshell indices 0..99 the triple (Z, dest, src) is read back
\* from the code, so that no two triples have the same code.  In an export,
\* the codes on the XRLINE lines are those of candidate transitions of the
\* depth detector and the code on the REFLIN line is that of the first
\* uncertainty limit's transition.
C24_TransitionCodeInjective ==
    /\ pc = "coded" =>
          /\ Len(lines) = 2 * Len(input.options.detectors[1].transitions) + 1
          /\ \A i \in 1..Len(lines) :
                LET t == CodedFor(i)
                IN  /\ lines[i].kw = IF i < Len(lines) THEN "XRLINE" ELSE "REFLIN"
                    /\ lines[i].args[1] = Packed(t.z, t.dest, t.src)
                    /\ Unpacked(lines[i].args[1]) = <<t.z, t.dest, t.src>>
    /\ pc \notin {"code", "coded"} =>
          \A i \in 1..Len(lines) :
              /\ lines[i].kw = "XRLINE" =>
                    \E k \in DOMAIN input.options.detectors :
                        \E t \in Range(Candidates(input.options.detectors[k], input.discovered)) :
                            /\ input.options.detectors[k].kind = "PhotonDepthDetector"
                            /\ lines[i].args[1] = Packed(t.z, t.dest, t.src)
              /\ lines[i].kw = "REFLIN" =>
                    LET t == LimitsOf(input.options, "UncertaintyLimit")[1].transition
                    IN  lines[i].args[1] = Packed(t.z, t.dest, t.src)

\* The codes of the hundred transitions of tungsten (Z = 74) to subshell 99
\* have been written, the last of them 74999900.
C24_Witness ==
    /\ pc = "coded"
    /\ lines[200] = Keyword("XRLINE", <<74999900, 1>>)
    /\ lines[201].kw = "REFLIN"

\* The PDANGL lines, in file order: the q-th belongs to the q-th block.
AngleLines == LinesOf(lines, {"PDANGL"})

\* C25: the PDANGL line of every detector block carries, for the elevation
\* window (e0, e1) and the azimuth window (a0, a1) of the detectors the block
\* is used by, the smaller of 90 - e0 and 90 - e1, then the larger, then a0,
\* a1 and 0; the first value is never greater than the second.
C25_ElevationInverted ==
    \A q \in 1..Len(AngleLines) :
        \A k \in UsedBy(BlockComments[q]) :
            LET e == input.options.detectors[k].elevation
                a == input.options.detectors[k].azimuth
                x == 90 - e[1]
                y == 90 - e[2]
                written == AngleLines[q].args
            IN  /\ written = <<IF x <= y THEN x ELSE y, IF x <= y THEN y ELSE x, a[1], a[2], 0>>
                /\ written[1] <= written[2]

\* A file holds the blocks of a window with ascending elevation limits
\* (35, 45) and of one with descending limits (-35, -45).
C25_Witness ==
    /\ file.exists
    /\ \E q \in 1..Len(AngleLines) : AngleLines[q].args = <<45, 55, 0, 360, 0>>
    /\ \E q \in 1..Len(AngleLines) : AngleLines[q].args = <<125, 135, 0, 360, 0>>
    /\ \E k \in DOMAIN input.options.detectors : input.options.detectors[k].elevation = <<35, 45>>
    /\ \E k \in DOMAIN input.options.detectors : input.options.detectors[k].elevation = <<-35, -45>>

\* The names of the entries the routine of a detector class reads.
NamesRead(kind) ==
    CASE kind = "ElectronFractionDetector" ->
            {"Absorption fraction", "Upbound fraction", "Downbound fraction"}
      [] kind = "TimeDetector" -> {"Simulation time", "Simulation speed"}
      [] kind = "ShowersStatisticsDetector" -> {"Simulated primary showers"}
      [] OTHER -> {}

\* C26: a routine called on a directory whose penepma-res.dat lacks an
\* entry the routine reads, or has an entry line whose value is not a
\* number, ends with ImporterException.
C26_UnreadableLogRaisesImporterException ==
    \A i \in 1..Len(calls) :
        LET kind == KindOf(calls[i].key)
            log == ContentOf(outdir, LogPath)
        IN  (/\ kind \in LogKinds
             /\ LogPath \in PathsIn(outdir)
             /\ \/ ~(NamesRead(kind) \subseteq LogNames(log))
                \/ \E l \in Range(EntryLines(log)) : ~l.val.num)
            => calls[i].out.raised = "ImporterException"

\* The XRLINE lines of the file, in file order.
XRLinesWritten == LinesOf(file.lines, {"XRLINE"})

\* The map is one this import can read up to its detector index: its second
\* line has the expected shape and names two known subshells.
WellFormed(header) ==
    header.shape = "match" /\ header.src \in IupacNames /\ header.dest \in IupacNames

\* C27: in a written file the XRLINE lines come in pairs, one pair per kept
\* transition in the order kept: first the line of the transition with
\* detector 0, then the line of the same transition with the resolved index
\* plus one of the single photon-depth detector.  A photon-depth routine
\* called with the same options on maps that are all among those the export
\* asked for returns, no assertion failing; called on well-formed maps one of
\* which carries a non-zero index other than that of the detector, it ends
\* with AssertionError.
C27_DepthMapsAgree ==
    /\ file.exists =>
          LET xr == XRLinesWritten
              kept == IF DepthKeys = {} THEN <<>>
                      ELSE Restrain(SortByProbability(DepthCandidates))
          IN  /\ Len(xr) = 2 * Len(kept)
              /\ \A j \in 1..Len(kept) :
                    LET code == kept[j].z * 1000000 + kept[j].dest * 10000 + kept[j].src * 100
                        key == CHOOSE k \in DepthKeys : TRUE
                    IN  /\ xr[2 * j - 1].args = <<code, 0>>
                        /\ xr[2 * j].args = <<code, phdets.key_index[key] + 1>>
    /\ \A i \in 1..Len(calls) :
          KindOf(calls[i].key) = "PhotonDepthDetector" =>
              LET own == imported.key_index[calls[i].key] + 1
                  out == calls[i].out
              IN  /\ PresentMaps \subseteq RequestedMaps => out.raised = "none"
                  /\ (/\ \A h \in PresentMaps : WellFormed(h)
                      /\ \E h \in PresentMaps : h.detector \notin {0, own})
                     => out.raised = "AssertionError"

\* The export has written its XRLINE pairs for a depth detector whose block
\* is the second, and the import of a directory with a map that carries
\* index 1 has ended with the failed assertion.
C27_Witness ==
    /\ Len(XRLinesWritten) >= 4
    /\ XRLinesWritten[2].args[2] = 2
    /\ \E i \in 1..Len(calls) :
          /\ KindOf(calls[i].key) = "PhotonDepthDetector"
          /\ calls[i].out.raised = "AssertionError"
          /\ \E h \in PresentMaps : h.detector = 1

\* The section header is in the lines: the section has been entered.
Entered(header) == \E i \in 1..Len(lines) : lines[i].kw = header

\* What the claim says of one photon-depth detector and of none, for a
\* section that has run: GRIDZ with min(100, channels) bins and a lower
\* bound of at most -1e-6 cm (-1000 in units of 1e-9 cm); header and skip
\* marker alone.
OneOrNoDepthDetector ==
    /\ (Cardinality(DepthKeys) = 1 /\ Completed("C_SPATIALDIST")) =>
          LET detector == input.options.detectors[CHOOSE k \in DepthKeys : TRUE]
              gridz == LinesOf(lines, {"GRIDZ"})
          IN  /\ Len(gridz) = 1
              /\ gridz[1].args[3] = IF detector.channels < 100 THEN detector.channels ELSE 100
              /\ gridz[1].args[2] = 0
              /\ gridz[1].args[1] <= -1000
    /\ (DepthKeys = {} /\ Completed("C_SPATIALDIST")) =>
          SpatialSection = <<"C_SPATIALDIST", "SKIP">>

\* C28 as stated: with more than one photon-depth detector the export raises
\* ExporterException and creates no file; with one the section has its GRIDZ
\* line; with none it is header and skip marker.
C28_Original ==
    /\ Cardinality(DepthKeys) > 1 =>
          /\ ~file.exists
          /\ Ended => raised = "ExporterException"
    /\ OneOrNoDepthDetector

\* C28, amended: with more than one photon-depth detector no file is created
\* and the export ends with an exception, which is ExporterException, raised
\* right after the section header, whenever the SpatialDistribution section
\* is entered; with one detector the section has its GRIDZ line; with none
\* it is header and skip marker.
C28_DepthDetectorCount ==
    /\ Cardinality(DepthKeys) > 1 =>
          /\ ~file.exists
          /\ Ended => raised # "none"
          /\ Entered("C_SPATIALDIST") =>
                /\ pc = "raised"
                /\ raised = "ExporterException"
                /\ lines[Len(lines)].kw = "C_SPATIALDIST"
    /\ OneOrNoDepthDetector

\* The section has refused two photon-depth detectors, after the forcing
\* section had resolved the negative forcer of the first material.
C28_Witness ==
    /\ Cardinality(DepthKeys) = 2
    /\ Entered("C_SPATIALDIST")
    /\ pc = "raised"
    /\ raised = "ExporterException"
    /\ lookups # <<>>

\* The lines of the photon detectors section after its header.
DetectorSection ==
    LET start == CHOOSE i \in 1..Len(lines) : lines[i].kw = "C_DETECTORS"
        stop == IF Entered("C_SPATIALDIST")
                THEN (CHOOSE i \in 1..Len(lines) : lines[i].kw = "C_SPATIALDIST") - 1
                ELSE Len(lines)
    IN  SubSeq(lines, start + 1, stop)

\* C29: the photon detectors section that has run is one block of four lines
\* per detector index, in index order: a comment with the index plus one and
\* all keys sharing the index, a PDANGL line, a PDENER line and a skip
\* marker.  With a spectrum detector among the sharing keys, PDENER carries
\* the energy window and the channels (at most 1000) of the first of them in
\* the order of the index's key list and PDANGL its window; with none, PDENER
\* carries (0, beam energy, 1000) and PDANGL the window of the first sharing
\* detector.
C29_BlockFromFirstSpectrum ==
    Completed("C_DETECTORS") =>
        LET section == DetectorSection
            n == Cardinality(DOMAIN phdets.index_keys)
        IN  /\ Len(section) = 4 * n
            /\ \A index \in 0..(n - 1) :
                  LET keys == phdets.index_keys[index]
                      at == 4 * index
                      spectrum == SelectSeq(keys, LAMBDA k :
                                    input.options.detectors[k].kind = "PhotonSpectrumDetector")
                      from == input.options.detectors[IF spectrum = <<>> THEN keys[1]
                                                      ELSE spectrum[1]]
                      x == 90 - from.elevation[1]
                      y == 90 - from.elevation[2]
                  IN  /\ section[at + 1] = Keyword("C_DETECTOR", <<index + 1>> \o keys)
                      /\ section[at + 2].kw = "PDANGL"
                      /\ section[at + 2].args =
                            <<IF x <= y THEN x ELSE y, IF x <= y THEN y ELSE x,
                              from.azimuth[1], from.azimuth[2], 0>>
                      /\ section[at + 3].kw = "PDENER"
                      /\ section[at + 3].args =
                            IF spectrum = <<>> THEN <<0, input.options.beam.energy_eV, 1000>>
                            ELSE <<from.limits[1], from.limits[2],
                                   IF from.channels > 1000 THEN 1000 ELSE from.channels>>
                      /\ section[at + 4] = COMMENT_SKIP

\* A file has one block, shared by a spectrum detector of 500 channels and,
\* after it, one of 1500 channels: the block carries the 500 channels.
C29_Witness ==
    /\ file.exists
    /\ Len(input.options.detectors) = 2
    /\ input.options.detectors[1].kind = "PhotonSpectrumDetector"
    /\ input.options.detectors[2].kind = "PhotonSpectrumDetector"
    /\ input.options.detectors[1].channels = 500
    /\ input.options.detectors[2].channels = 1500
    /\ BlockComments = <<Keyword("C_DETECTOR", <<1, 1, 2>>)>>
    /\ LinesOf(file.lines, {"PDENER"}) = <<Keyword("PDENER", <<0, 20000, 500>>)>>

\* The lines of the job properties section, from its header on.
JobSection ==
    LET start == CHOOSE i \in 1..Len(lines) : lines[i].kw = "C_JOBPROP"
        stop == IF \E i \in 1..Len(lines) : lines[i].kw = "END"
                THEN (CHOOSE i \in 1..Len(lines) : lines[i].kw = "END") - 1
                ELSE Len(lines)
    IN  SubSeq(lines, start, stop)

\* The limits of a class, in the order of the options.
LimitsOfClass(kind) == SelectSeq(input.options.limits, LAMBDA l : l.kind = kind)

\* The number written as <<mantissa, exponent>> is the given one.
Carries(written, number) == written[1] * Pow10(written[2]) = number

\* C30: a job properties section that has run consists of its header,
\* RESUME, DUMPTO, DUMPP and a skip marker, then a REFLIN line if and only
\* if the options have an UncertaintyLimit, then one NSIMSH line, one TIME
\* line and a skip marker.  NSIMSH carries the shower count of the first
\* ShowersLimit, or 1e38 without one; TIME the seconds of the first
\* TimeLimit, or 1e38 without one; REFLIN the transition code of the first
\* UncertaintyLimit, the resolved index plus one of its detector key, which
\* is the number of an emitted detector block, and its uncertainty.
C30_JobProperties ==
    Completed("C_JOBPROP") =>
        LET section == JobSection
            uncertainty == LimitsOfClass("UncertaintyLimit")
            showers == LimitsOfClass("ShowersLimit")
            time == LimitsOfClass("TimeLimit")
            reflin == LinesOf(section, {"REFLIN"})
            nsimsh == LinesOf(section, {"NSIMSH"})
            timeline == LinesOf(section, {"TIME"})
        IN  /\ [i \in 1..Len(section) |-> section[i].kw]
                 = <<"C_JOBPROP", "RESUME", "DUMPTO", "DUMPP", "SKIP">>
                   \o (IF uncertainty = <<>> THEN <<>> ELSE <<"REFLIN">>)
                   \o <<"NSIMSH", "TIME", "SKIP">>
            /\ IF showers = <<>> THEN nsimsh[1].args = <<1, 38>>
               ELSE Carries(nsimsh[1].args, showers[1].value)
            /\ IF time = <<>> THEN timeline[1].args = <<1, 38>>
               ELSE Carries(timeline[1].args, time[1].value)
            /\ uncertainty # <<>> =>
                  LET limit == uncertainty[1]
                      t == limit.transition
                  IN  /\ reflin[1].args = <<t.z * 1000000 + t.dest * 10000 + t.src * 100,
                                            phdets.key_index[limit.detector_key] + 1,
                                            limit.uncertainty>>
                      /\ \E q \in 1..Len(BlockComments) :
                            BlockComments[q].args[1] = reflin[1].args[2]
====
